---- MODULE Spec2Model ----
(***************************************************************************)
(* The Sparkling virtual machine (src/src/vm.c) as a state machine.        *)
(*                                                                         *)
(* State: the VM object (stack memory, stack pointer, allocation size,     *)
(* global symbol table, error message and flag), the heap objects with     *)
(* their reference counts, the local symbol table of the loaded program,   *)
(* and the C call stack of dispatch loops and native callbacks that are in *)
(* progress.  One action per host entry point, per native-callback step   *)
(* and per opcode.  The instruction stream is not fixed: every fetch       *)
(* draws an arbitrary instruction with operands inside the frame.          *)
(***************************************************************************)
EXTENDS Integers, Sequences, FiniteSets, TLC

VARIABLES
    stack,       \* vm->stack: the slots, 1-based (C index i is stack[i+1])
    sp,          \* vm->sp - vm->stack
    stackallsz,  \* vm->stackallsz
    glbsymtab,   \* vm->glbsymtab: name -> value (Nil: no such key)
    errmsg,      \* vm->errmsg
    haserror,    \* vm->haserror
    heap,        \* the reference-counted objects
    symtab,      \* program->symtab: the local symbol table, 0-based index i at i+1
    readsymtab,  \* program->readsymtab
    cstack,      \* C activations in progress: dispatch loops and native callbacks
    retval,      \* the out-value of the last spn_vm_callfunc, held by its caller
    status,      \* the int returned by the last spn_vm_callfunc / dispatch_loop
    ncalls,      \* history: calls of spn_vm_callfunc made so far
    fault,       \* "none", or how the process stopped: failed assert, undefined behaviour
    live,        \* history: callee of every frame pushed and not yet popped, bottom first
    lookedup,    \* history: the last step consulted the global table in resolve_symbol
    registered,  \* history: names a GLBVAL or a library installation has defined
    held         \* a function value the host keeps (and owns) between its calls

vars == <<stack, sp, stackallsz, glbsymtab, errmsg, haserror, heap, symtab,
          readsymtab, cstack, retval, status, ncalls, fault, live, lookedup,
          registered, held>>

-----------------------------------------------------------------------------
(* Bounds of the model *)

MaxSp == 6
MaxCDepth == 2    \* nested C activations (dispatch loops + native callbacks)
MaxObj == 5       \* heap objects alive at once
BodyLen == 3      \* instruction words a function body may occupy
MaxArgc == 1      \* arguments at a call site
MaxCalls == 3     \* calls of spn_vm_callfunc in one run
MaxNum == 2       \* largest magnitude of a number (numerator, denominator)
MaxUpvals == 1    \* upvalues of a closure
MaxSpDeep == 11   \* stack slots in use where the stack is made to grow
MaxArgcDeep == 2  \* arguments of the host's call where the stack is made to grow
MaxEntries == 2   \* entries of one library installation
MaxStrLen == 2    \* characters of a string

(* Program constants *)

EXTRA_SLOTS == 1
IDX_FRMHDR == -1
REG_OFFSET == -2
NULLADDR == -1            \* the NULL return address
SPN_FUNCHDR_LEN == 4
SPN_WORD_OCTETS == 4
SIZEOF_NUM == 8           \* sizeof(long), sizeof(double)
STACK_BASE_SIZE == 8

-----------------------------------------------------------------------------
(* Values: the tagged union SpnValue.  v is the payload: the number, 0/1   *)
(* for a Boolean, the object id for a reference type.  A Float is the      *)
(* fraction v / d in lowest terms with d > 0; d is 1 for every other type. *)

Nil == [t |-> "nil", v |-> 0, d |-> 1]
makenil == Nil
makeint(n) == [t |-> "int", v |-> n, d |-> 1]
makebool(b) == [t |-> "bool", v |-> IF b THEN 1 ELSE 0, d |-> 1]
MkRef(t, o) == [t |-> t, v |-> o, d |-> 1]

Abs(n) == IF n < 0 THEN -n ELSE n
RECURSIVE Gcd(_, _)
Gcd(a, b) == IF b = 0 THEN a ELSE Gcd(b, a % b)
\* the Float n / d, d # 0
makefloat(n, d) ==
    LET g == Gcd(Abs(n), Abs(d))
        s == IF d < 0 THEN -1 ELSE 1
    IN  [t |-> "float", v |-> (s * n) \div g, d |-> (s * d) \div g]

isnil(x) == x.t = "nil"
isint(x) == x.t = "int"
isfloat(x) == x.t = "float"
isnum(x) == isint(x) \/ isfloat(x)
isbool(x) == x.t = "bool"
isfunc(x) == x.t = "func"
isarray(x) == x.t = "arr"
isstring(x) == x.t = "str"
is_symstub(x) == x.t = "stub"
isobject(x) == x.t \in {"str", "arr", "func", "stub"}

\* the global name the program's symbol stub and its GLBVAL refer to, which
\* is also the name the native library function is installed under
Names == {"g"}
\* the string keys of the global table and of library arrays
Keys == {"g", "lib"}

(* Heap objects: the reference count, the type, the definition a function  *)
(* object runs (its name and bytecode), whether it is a closure (it has an *)
(* upvalue array), the upvalues, the string-keyed entries of an array      *)
(* (Nil: no such key), and the characters of a string (cstr, of which      *)
(* the length is the string's len), each a char of the range -128 .. 127.  *)
Objs == 1 .. MaxObj
NoTab == [k \in Keys |-> Nil]
FreeObj == [rc |-> 0, kind |-> "free", def |-> "", clo |-> FALSE, upv |-> <<>>,
            tab |-> NoTab, cstr |-> <<>>]

(* The functions of the loaded program, by definition name:                *)
(*   P  the top-level program,  F  a function defined in P's symbol table, *)
(*   N  a native library function.                                         *)
FuncDef(d) ==
    CASE d = "P" -> [native |-> FALSE, topprg |-> TRUE,  argc |-> 0, nregs |-> 2,
                     entry |-> SPN_FUNCHDR_LEN]
      [] d = "F" -> [native |-> FALSE, topprg |-> FALSE, argc |-> 1, nregs |-> 2,
                     entry |-> SPN_FUNCHDR_LEN + BodyLen + SPN_FUNCHDR_LEN]
      [] OTHER   -> [native |-> TRUE,  topprg |-> FALSE, argc |-> 0, nregs |-> 0,
                     entry |-> 0]

\* one past the last word of the body that starts at `entry`
BodyEnd(entry) == entry + BodyLen

-----------------------------------------------------------------------------
(* The VM and heap as one record, threaded through the C functions.        *)

TheVM == [stack |-> stack, sp |-> sp, stackallsz |-> stackallsz,
          glbsymtab |-> glbsymtab, errmsg |-> errmsg, haserror |-> haserror,
          heap |-> heap, symtab |-> symtab, readsymtab |-> readsymtab,
          fault |-> fault, live |-> live, lookedup |-> FALSE,
          registered |-> registered]

NoHdr == [size |-> 0, decl_argc |-> 0, extra_argc |-> 0, real_argc |-> 0,
          retaddr |-> NULLADDR, retidx |-> -1, callee |-> 0]
ValSlot(x) == [k |-> "v", h |-> NoHdr, val |-> x]
HdrSlot(h) == [k |-> "h", h |-> h, val |-> Nil]
Junk == [k |-> "junk", h |-> NoHdr, val |-> Nil]

NoMsg == [pfx |-> "NULL", addr |-> 0, text |-> "", code |-> 0]

Ub(m) == [m EXCEPT !.fault = IF @ = "none" THEN "ub" ELSE @]
\* the undefined behaviour of popping a frame off the empty stack: the header
\* is read below the base of the stack and sp moves by whatever it holds
Underflow(m) == [m EXCEPT !.fault = IF @ = "none" THEN "underflow" ELSE @]

\* x refers to a live object of its own type (not to freed or reused memory)
Valid(m, x) == m.heap[x.v].rc > 0 /\ m.heap[x.v].kind = x.t

\* the values an array holds under its string keys, in key order
TabValues(tab) == <<tab["g"], tab["lib"]>>

(* spn_value_retain: one more owner of an object *)
spn_value_retain(m, x) ==
    IF ~isobject(x) THEN m
    ELSE IF ~Valid(m, x) THEN Ub(m)            \* the object was freed
    ELSE [m EXCEPT !.heap[x.v].rc = @ + 1]

RECURSIVE spn_value_release(_, _), ReleaseAll(_, _, _)
(* spn_value_release: one owner less; at zero the object is freed, and it  *)
(* releases what it owns: a closure its upvalues, an array its entries.    *)
spn_value_release(m, x) ==
    IF ~isobject(x) THEN m
    ELSE IF ~Valid(m, x) THEN Ub(m)            \* the object was freed
    ELSE IF m.heap[x.v].rc = 1
    THEN LET o == m.heap[x.v]
             owned == o.upv \o TabValues(o.tab)
         IN  ReleaseAll([m EXCEPT !.heap[x.v] = FreeObj], owned, 1)
    ELSE [m EXCEPT !.heap[x.v].rc = @ - 1]

\* release the values vals[i], vals[i+1], ...
ReleaseAll(m, vals, i) ==
    IF i > Len(vals) THEN m ELSE ReleaseAll(spn_value_release(m, vals[i]), vals, i + 1)

RECURSIVE ReleaseSlots(_, _, _)
\* release the values in the slots lo .. hi of m.stack, in ascending order
ReleaseSlots(m, lo, hi) ==
    IF lo > hi THEN m
    ELSE IF m.stack[lo].k # "v" THEN Ub(m)     \* a header read as a value
    ELSE ReleaseSlots(spn_value_release(m, m.stack[lo].val), lo + 1, hi)

HasFree(h, n) == Cardinality({o \in Objs : h[o].rc = 0}) >= n
\* the object a fresh allocation returns
Alloc(h) == CHOOSE o \in Objs : h[o].rc = 0 /\ \A p \in Objs : h[p].rc = 0 => o <= p
NewObj(m, kind, def) ==
    [m EXCEPT !.heap[Alloc(m.heap)] =
                  [FreeObj EXCEPT !.rc = 1, !.kind = kind, !.def = def]]

\* store a slot at 1-based index i of the stack memory
Poke(s, i, slot) ==
    IF i <= Len(s) THEN [s EXCEPT ![i] = slot]
    ELSE IF i = Len(s) + 1 THEN Append(s, slot)
    ELSE [j \in 1 .. i |-> IF j = i THEN slot ELSE IF j <= Len(s) THEN s[j] ELSE Junk]

-----------------------------------------------------------------------------
(* Error reporting *)

Msg(pfx, addr, text, code) == [pfx |-> pfx, addr |-> addr, text |-> text, code |-> code]

\* runtime_error without the early return on a pending error: a later error
\* replaces the message of the first one
runtime_error_overwrite(m, ip, text, code) ==
    [m EXCEPT !.errmsg = IF ip # NULLADDR
                         THEN Msg("runtime error at address", ip, text, code)
                         ELSE Msg("runtime error in native code", 0, text, code),
              !.haserror = 1]

\* runtime_error that formats the message but leaves the flag alone
runtime_error_noflag(m, ip, text, code) ==
    IF m.haserror = 1 THEN m
    ELSE [m EXCEPT !.errmsg = IF ip # NULLADDR
                              THEN Msg("runtime error at address", ip, text, code)
                              ELSE Msg("runtime error in native code", 0, text, code)]

(* runtime_error: the message is built and the flag set unless a previous  *)
(* error is still pending.  ip = NULLADDR is the native-code convention.   *)
(* Addresses are offsets from the start of the program's bytecode.         *)
runtime_error(m, ip, text, code) ==
    IF m.haserror = 1 THEN m
    ELSE [m EXCEPT !.errmsg = IF ip # NULLADDR
                              THEN Msg("runtime error at address", ip, text, code)
                              ELSE Msg("runtime error in native code", 0, text, code),
                   !.haserror = 1]

spn_vm_seterrmsg(m, text, code) == runtime_error(m, NULLADDR, text, code)

-----------------------------------------------------------------------------
(* Stack management *)

stacksize(m) == IF m.stackallsz # 0 THEN m.sp ELSE 0

\* a stack that grows to exactly the size the push requires
Doubled_exact(allsz, newsize) == IF allsz < newsize THEN newsize ELSE allsz

RECURSIVE Doubled(_, _)
Doubled(allsz, newsize) == IF allsz < newsize THEN Doubled(allsz * 2, newsize) ELSE allsz

expand_stack(m, nregs) ==
    LET oldsize == stacksize(m)
        newsize == oldsize + nregs
        first   == IF m.stackallsz = 0 THEN STACK_BASE_SIZE ELSE m.stackallsz
    IN  [m EXCEPT !.stackallsz = Doubled(first, newsize), !.sp = oldsize]

RECURSIVE NilFill(_, _, _)
NilFill(s, lo, hi) == IF lo > hi THEN s ELSE NilFill(Poke(s, lo, ValSlot(makenil)), lo + 1, hi)

push_frame(m, nregs, decl_argc, extra_argc, real_argc, retaddr, retidx, callee) ==
    LET real_nregs == nregs + extra_argc + EXTRA_SLOTS
        m1 == IF m.stackallsz = 0 \/ m.stackallsz < stacksize(m) + real_nregs
              THEN expand_stack(m, real_nregs) ELSE m
        nsp == m1.sp + real_nregs
        hdr == [size |-> real_nregs, decl_argc |-> decl_argc, extra_argc |-> extra_argc,
                real_argc |-> real_argc, retaddr |-> retaddr, retidx |-> retidx,
                callee |-> callee]
    IN  [m1 EXCEPT !.sp = nsp,
                   !.stack = Poke(NilFill(m1.stack, m1.sp + 1, nsp - 1), nsp, HdrSlot(hdr)),
                   !.live = Append(@, callee)]

\* a native call that pushes no pseudo-frame
push_native_pseudoframe_none(m, callee) == m

push_native_pseudoframe(m, callee) == push_frame(m, 0, 0, 0, 0, NULLADDR, -1, callee)

(* pop_frame: reads the header at sp[-1], releases every other slot of the *)
(* frame and lowers sp by the header's size.                               *)
pop_frame(m) ==
    IF m.sp = 0
    THEN Underflow(m)                      \* sp[-1] lies below the stack base
    ELSE IF m.stack[m.sp].k # "h" \/ m.stack[m.sp].h.size > m.sp
    THEN Ub(m)                             \* no header at sp[-1] / sp leaves the array
    ELSE LET nregs == m.stack[m.sp].h.size
             m1 == ReleaseSlots(m, m.sp - nregs + 1, m.sp - 1)
         IN  [m1 EXCEPT !.sp = m.sp - nregs,
                        !.live = IF Len(@) > 0 THEN SubSeq(@, 1, Len(@) - 1) ELSE @]

RECURSIVE free_frames(_)
free_frames(m) ==
    IF m.sp > 0 /\ m.fault = "none" THEN free_frames(pop_frame(m)) ELSE m

\* the cleanup that unwinds the frames but forgets to clear the flag
clean_vm_if_needed_keepflag(m) ==
    IF m.haserror # 0 THEN free_frames(m) ELSE m

clean_vm_if_needed(m) ==
    IF m.haserror # 0 THEN [free_frames(m) EXCEPT !.haserror = 0] ELSE m

\* 1-based index of register r of the frame whose stack pointer is s
\* (VALPTR / SLOTPTR: &s[-r + REG_OFFSET])
RegIdx(s, r) == s + (-r + REG_OFFSET) + 1
Hdr(m) == m.stack[m.sp + IDX_FRMHDR + 1].h
Reg(m, r) == m.stack[RegIdx(m.sp, r)].val
\* registers an instruction of the current frame may name (the assert in VALPTR)
Regs(m) == 0 .. (Hdr(m).size - EXTRA_SLOTS - 1)

\* store x in the slot with 1-based index i
SetSlot(m, i, x) == [m EXCEPT !.stack = Poke(@, i, ValSlot(x))]

\* the slot of a variadic argument, counted from the top of the frame
nth_vararg_idx_fromtop(m, idx) == RegIdx(m.sp, Hdr(m).size - EXTRA_SLOTS - 1 - idx)

\* first register of the variadic arguments (nth_vararg)
vararg_off(h) == h.size - EXTRA_SLOTS - h.extra_argc
nth_vararg_idx(m, idx) == RegIdx(m.sp, vararg_off(Hdr(m)) + idx)

(* spn_vm_stacktrace: one name per header met walking down from sp *)
RECURSIVE WalkFrames(_, _)
WalkFrames(m, s) ==
    IF s <= 0 THEN <<>>
    ELSE IF m.stack[s].k # "h" \/ m.stack[s].h.size <= 0 THEN <<"?">>
    ELSE <<m.heap[m.stack[s].h.callee].def>> \o WalkFrames(m, s - m.stack[s].h.size)

spn_vm_stacktrace(m) == IF m.stackallsz = 0 THEN <<>> ELSE WalkFrames(m, m.sp)

-----------------------------------------------------------------------------
(* Symbol tables *)

\* spn_array_set_intkey on the local symbol table: the array retains the new
\* value and releases the one it replaces
symtab_set(m, i, x) ==
    LET m1 == spn_value_retain(m, x)
        m2 == IF i + 1 <= Len(m1.symtab) THEN spn_value_release(m1, m1.symtab[i + 1]) ELSE m1
    IN  [m2 EXCEPT !.symtab = IF i + 1 <= Len(@) THEN [@ EXCEPT ![i + 1] = x]
                                ELSE Append(@, x)]

\* spn_array_set_strkey on the global table; a nil value leaves no binding
glb_set(m, name, x) ==
    LET m1 == spn_value_retain(m, x)
        m2 == spn_value_release(m1, m1.glbsymtab[name])
    IN  [m2 EXCEPT !.glbsymtab[name] = x]

\* read_local_symtab that parses the table on every call of the program
read_local_symtab_always(m) ==
    IF ~HasFree(m.heap, 2) THEN m
    ELSE LET m0  == [m EXCEPT !.readsymtab = 1]
             so  == Alloc(m0.heap)
             m1  == NewObj(m0, "stub", "g")
             m2  == spn_value_release(symtab_set(m1, 0, MkRef("stub", so)), MkRef("stub", so))
             fo  == Alloc(m2.heap)
             m3  == NewObj(m2, "func", "F")
         IN  spn_value_release(symtab_set(m3, 1, MkRef("func", fo)), MkRef("func", fo))

(* read_local_symtab: entry 0 is a symbol stub for the global "g", entry 1 *)
(* the definition of F.  Each value is created, stored and released, which *)
(* leaves the table its only owner.                                        *)
read_local_symtab(m) ==
    IF m.readsymtab = 1 THEN m
    ELSE LET m0  == [m EXCEPT !.readsymtab = 1]
             so  == Alloc(m0.heap)
             m1  == NewObj(m0, "stub", "g")
             m2  == spn_value_release(symtab_set(m1, 0, MkRef("stub", so)), MkRef("stub", so))
             fo  == Alloc(m2.heap)
             m3  == NewObj(m2, "func", "F")
         IN  spn_value_release(symtab_set(m3, 1, MkRef("func", fo)), MkRef("func", fo))

\* resolve_symbol that takes the nil of an absent global for its value
resolve_symbol_lenient(m, ip, sym) ==
    [m |-> [m EXCEPT !.lookedup = TRUE], err |-> 0, sym |-> m.glbsymtab[m.heap[sym.v].def]]

(* resolve_symbol: [m, err, sym] *)
resolve_symbol(m, ip, sym) ==
    LET name == m.heap[sym.v].def
        res  == m.glbsymtab[name]
        m1   == [m EXCEPT !.lookedup = TRUE]
    IN  IF isnil(res)
        THEN [m |-> runtime_error(m1, ip, "global does not exist or it is nil", 0),
              err |-> -1, sym |-> sym]
        ELSE [m |-> m1, err |-> 0, sym |-> res]

-----------------------------------------------------------------------------
(* Call protocol *)

\* struct args_copy_descriptor; argregs are the register numbers held by the
\* argument words at script_env.ip
NativeDesc(argv) ==
    [caller_is_native |-> TRUE, argv |-> argv, argregs |-> <<>>,
     retaddr |-> NULLADDR, calleroff |-> 0, retidx |-> -1]
\* the descriptor of a script caller that records no return slot
ScriptDesc_noslot(argregs, retaddr, calleroff, retidx) ==
    [caller_is_native |-> FALSE, argv |-> <<>>, argregs |-> argregs,
     retaddr |-> retaddr, calleroff |-> calleroff, retidx |-> -1]

ScriptDesc(argregs, retaddr, calleroff, retidx) ==
    [caller_is_native |-> FALSE, argv |-> <<>>, argregs |-> argregs,
     retaddr |-> retaddr, calleroff |-> calleroff, retidx |-> retidx]

\* the i-th call argument (0-based): argv[i], or the caller's register named
\* by the i-th octet of the argument words (nth_call_arg)
ArgSrc(m, desc, i) ==
    IF desc.caller_is_native THEN desc.argv[i + 1]
    ELSE m.stack[RegIdx(desc.calleroff, desc.argregs[i + 1])].val

RECURSIVE CopyArgs(_, _, _, _)
\* both copy loops of push_and_copy_args: argument i goes to register i while
\* i < decl_argc and to variadic slot i - decl_argc from there on
CopyArgs(m, desc, i, argc) ==
    IF i >= argc THEN m
    ELSE LET h   == Hdr(m)
             src == ArgSrc(m, desc, i)
             dst == IF i < h.decl_argc THEN RegIdx(m.sp, i)
                    ELSE nth_vararg_idx(m, i - h.decl_argc)
         IN  CopyArgs(SetSlot(spn_value_retain(m, src), dst, src), desc, i + 1, argc)

push_and_copy_args(m, fnobj, desc, argc) ==
    LET fnhdr      == FuncDef(m.heap[fnobj].def)
        decl_argc  == fnhdr.argc
        nregs      == fnhdr.nregs
        extra_argc == IF argc > decl_argc THEN argc - decl_argc ELSE 0
        m1 == push_frame(m, nregs, decl_argc, extra_argc, argc,
                         IF desc.caller_is_native THEN NULLADDR ELSE desc.retaddr,
                         IF desc.caller_is_native THEN -1 ELSE desc.retidx,
                         fnobj)
    IN  CopyArgs(m1, desc, 0, argc)

\* slots the frame of a call of fnobj with argc arguments takes
FrameSize(h, fnobj, argc) ==
    LET fnhdr == FuncDef(h[fnobj].def)
    IN  fnhdr.nregs + (IF argc > fnhdr.argc THEN argc - fnhdr.argc ELSE 0) + EXTRA_SLOTS

-----------------------------------------------------------------------------
(* The C call stack.  A "disp" activation is a dispatch_loop with its      *)
(* instruction pointer; a "nat" activation is a native callback, entered   *)
(* from spn_vm_callfunc (via = "host") or from a CALL instruction (via =   *)
(* "call", with the return slot index and argument-word count the CALL     *)
(* keeps in its locals while the callback runs).  `base` and `calls` are    *)
(* history: the stack depth at which the activation pushed its first       *)
(* frame, the value of ncalls when a native callback was entered, and the  *)
(* allocation size of the stack when the CALL took the address of its      *)
(* return slot.                                                            *)

DispCtx(ip, base) ==
    [kind |-> "disp", ip |-> ip, via |-> "host", retidx |-> -1, narg |-> 0, argv |-> <<>>,
     base |-> base, calls |-> 0, allsz |-> 0]
\* the argument array filled from the last argument word to the first
NatCtx_reversed(via, retidx, narg, argv, base, calls, allsz) ==
    [kind |-> "nat", ip |-> 0, via |-> via, retidx |-> retidx, narg |-> narg,
     argv |-> [i \in 1 .. Len(argv) |-> argv[Len(argv) + 1 - i]],
     base |-> base, calls |-> calls, allsz |-> allsz]

NatCtx(via, retidx, narg, argv, base, calls, allsz) ==
    [kind |-> "nat", ip |-> 0, via |-> via, retidx |-> retidx, narg |-> narg, argv |-> argv,
     base |-> base, calls |-> calls, allsz |-> allsz]

Top == cstack[Len(cstack)]
Below == SubSeq(cstack, 1, Len(cstack) - 1)
InHost == cstack = <<>>
InNative == cstack # <<>> /\ Top.kind = "nat"
InDispatch == cstack # <<>> /\ Top.kind = "disp"

\* slots above sp that a pending native CALL still addresses through its retidx
Kept(cs) == {cs[i].retidx + 1 : i \in {j \in 1 .. Len(cs) : cs[j].kind = "nat" /\ cs[j].via = "call"}}

\* the stack memory that can still be observed: the slots below sp and those
\* in Kept; everything else above sp is overwritten by push_frame before it is read
Canon(s, p, cs) ==
    LET keep == {i \in Kept(cs) : i > p /\ i <= Len(s)}
        top  == IF keep = {} THEN p ELSE CHOOSE i \in keep : \A j \in keep : j <= i
    IN  IF keep = {} THEN (IF Len(s) = p THEN s ELSE SubSeq(s, 1, p))
        ELSE [j \in 1 .. top |-> IF j <= p \/ j \in keep THEN s[j] ELSE Junk]

\* the next state, with everything the host holds given explicitly
CommitH(vm, cs, rv, st, n, hd) ==
    \E m \in {vm} :
        /\ stack' = Canon(m.stack, m.sp, cs)
        /\ sp' = m.sp
        /\ stackallsz' = m.stackallsz
        /\ glbsymtab' = m.glbsymtab
        /\ errmsg' = IF m.haserror = 0 THEN NoMsg ELSE m.errmsg
        /\ haserror' = m.haserror
        /\ heap' = m.heap
        /\ symtab' = m.symtab
        /\ readsymtab' = m.readsymtab
        /\ fault' = m.fault
        /\ live' = m.live
        /\ lookedup' = m.lookedup
        /\ registered' = m.registered
        /\ cstack' = cs
        /\ retval' = rv
        /\ status' = st
        /\ ncalls' = n
        /\ held' = hd

CommitN(vm, cs, rv, st, n) == CommitH(vm, cs, rv, st, n, held)

Commit(vm, cs, rv, st) == CommitN(vm, cs, rv, st, ncalls)

-----------------------------------------------------------------------------
(* Initial state: spn_vm_new, and the program function P loaded by the host *)

Init ==
    /\ stack = <<>>
    /\ sp = 0
    /\ stackallsz = 0
    /\ glbsymtab = [n \in Names |-> Nil]
    /\ errmsg = NoMsg
    /\ haserror = 0
    /\ heap = [o \in Objs |-> IF o = 1 THEN [FreeObj EXCEPT !.rc = 1, !.kind = "func", !.def = "P"]
                              ELSE FreeObj]
    /\ symtab = <<>>
    /\ readsymtab = 0
    /\ cstack = <<>>
    /\ retval = Nil
    /\ status = 0
    /\ ncalls = 0
    /\ fault = "none"
    /\ live = <<>>
    /\ lookedup = FALSE
    /\ registered = {}
    /\ held = Nil

\* the program function the host holds
ProgObj == 1

-----------------------------------------------------------------------------
(* Host entry: spn_vm_callfunc, called by the host or by a native callback *)

\* function values the caller can name: nil (not a function), the program,
\* the global's value, the result of its last call, its own arguments
CallerValues ==
    {Nil, MkRef("func", ProgObj), glbsymtab["g"]}
        \cup (IF InNative THEN {Top.argv[i] : i \in 1 .. Len(Top.argv)} ELSE {})

\* argument vectors: none, or the program function
ArgVectors == {<<>>, <<MkRef("func", ProgObj)>>}

\* a step of spn_vm_callfunc: the calls are counted
CommitCall(vm, cs, rv, st) == CommitN(vm, cs, rv, st, ncalls + 1)

\* spn_vm_callfunc, with the stack depth the model follows it to
spn_vm_callfunc_within(fn, argv, depth) ==
    /\ fault = "none"
    /\ InHost \/ InNative
    /\ isnil(retval)
    /\ ncalls < MaxCalls
    /\ LET argc == Len(argv)
           m1   == clean_vm_if_needed(TheVM)
       IN  IF m1.fault # "none"
           THEN CommitCall(m1, cstack, retval, status)
           ELSE IF ~isfunc(fn)
           THEN CommitCall(spn_vm_seterrmsg(m1, "attempt to call non-function value", 0),
                       cstack, retval, -1)
           ELSE IF ~Valid(m1, fn)
           THEN CommitCall(Ub(m1), cstack, retval, status)
           ELSE IF FuncDef(m1.heap[fn.v].def).native
           THEN /\ Len(cstack) < MaxCDepth
                /\ m1.sp + EXTRA_SLOTS <= depth
                /\ CommitCall(push_native_pseudoframe(m1, fn.v),
                          Append(cstack, NatCtx("host", -1, 0, argv, m1.sp, ncalls + 1, 0)),
                          makenil, 0)
           ELSE /\ Len(cstack) < MaxCDepth
                /\ m1.sp + FrameSize(m1.heap, fn.v, argc) <= depth
                /\ m1.readsymtab = 1 \/ HasFree(m1.heap, 2)
                /\ LET fnhdr == FuncDef(m1.heap[fn.v].def)
                       m2 == IF fnhdr.topprg THEN read_local_symtab(m1) ELSE m1
                       m3 == push_and_copy_args(m2, fn.v, NativeDesc(argv), argc)
                   IN  CommitCall(m3, Append(cstack, DispCtx(fnhdr.entry, m1.sp)),
                              retval, 0)

spn_vm_callfunc(fn, argv) == spn_vm_callfunc_within(fn, argv, MaxSp)

CallFunc == \E fn \in CallerValues : \E argv \in ArgVectors : spn_vm_callfunc(fn, argv)

(* The other host-side operations *)

\* spn_vm_seterrmsg, called by the host or from inside a native callback
SetErrMsg ==
    /\ fault = "none"
    /\ InHost \/ InNative
    /\ Commit(spn_vm_seterrmsg(TheVM, "custom message", 0), cstack, retval, status)

\* the caller of spn_vm_callfunc releases the out-value it received
DropRetval ==
    /\ fault = "none"
    /\ InHost \/ InNative
    /\ ~isnil(retval)
    /\ Commit(spn_value_release(TheVM, retval), cstack, makenil, status)

\* spn_vm_addlib_cfuncs(vm, NULL, fns, 1): the native function N bound to "g"
spn_vm_addlib_cfuncs ==
    /\ fault = "none"
    /\ InHost
    /\ readsymtab = 0
    /\ isnil(glbsymtab["g"])
    /\ HasFree(heap, 1)
    /\ LET val == MkRef("func", Alloc(heap))
           m1  == NewObj(TheVM, "func", "N")
           m2  == spn_value_release(glb_set(m1, "g", val), val)
       IN  Commit([m2 EXCEPT !.registered = @ \cup {"g"}], cstack, retval, status)

\* the host removes a binding from the array spn_vm_getglobals returns,
\* between two executions
RemoveGlobal ==
    /\ fault = "none"
    /\ InHost
    /\ sp = 0
    /\ ~isnil(glbsymtab["g"])
    /\ Commit([glb_set(TheVM, "g", makenil) EXCEPT !.registered = @ \ {"g"}],
              cstack, retval, status)

-----------------------------------------------------------------------------
(* A native callback returns err, having written `out` to its out-value:   *)
(* nothing ("nil"), a new array ("new"), or its first argument, retained   *)
(* ("arg").                                                                *)

NativeCodes == {0, 3}
OutKinds == {"nil", "new", "arg"}

\* [m, val]: the heap after the callback produced its out-value, and the value
NativeOut(m, out, argv) ==
    CASE out = "new" -> [m |-> NewObj(m, "arr", ""), val |-> MkRef("arr", Alloc(m.heap))]
      [] out = "arg" -> [m |-> spn_value_retain(m, argv[1]), val |-> argv[1]]
      [] OTHER       -> [m |-> m, val |-> makenil]

\* the tail of spn_vm_callfunc for a native callee (lines 312-322)
callfunc_native_return(err, out) ==
    LET r  == NativeOut(TheVM, out, Top.argv)
        m1 == IF err # 0 THEN spn_vm_seterrmsg(r.m, "error in function", err)
              ELSE pop_frame(r.m)
    IN  Commit(m1, Below, r.val, err)

\* the tail of the native branch that writes the result through the slot
\* pointer taken before the pseudo-frame was pushed
ins_call_native_return_rawptr(err, out) ==
    LET r   == NativeOut(TheVM, out, Top.argv)
        ri  == Top.retidx + 1
        m1  == IF ri > Len(r.m.stack) \/ r.m.stack[ri].k # "v" \/ Top.allsz # stackallsz
               THEN Ub(r.m)
               ELSE SetSlot(spn_value_release(r.m, r.m.stack[ri].val), ri, r.val)
        cs  == Below
        ip  == cs[Len(cs)].ip
    IN  IF m1.fault # "none" THEN Commit(m1, cs, retval, status)
        ELSE IF err # 0
        THEN Commit(spn_vm_seterrmsg(m1, "error in function", err),
                    SubSeq(cs, 1, Len(cs) - 1), retval, err)
        ELSE IF m1.haserror # 0
        THEN Commit([m1 EXCEPT !.fault = "assert"], cs, retval, status)
        ELSE Commit(pop_frame(m1), [cs EXCEPT ![Len(cs)].ip = ip + Top.narg],
                    retval, status)

\* the tail of the native branch of SPN_INS_CALL (lines 785-825)
ins_call_native_return(err, out) ==
    LET r   == NativeOut(TheVM, out, Top.argv)
        ri  == Top.retidx + 1
        m1  == IF ri > Len(r.m.stack) \/ r.m.stack[ri].k # "v" THEN Ub(r.m)
               ELSE SetSlot(spn_value_release(r.m, r.m.stack[ri].val), ri, r.val)
        cs  == Below
        ip  == cs[Len(cs)].ip
    IN  IF m1.fault # "none" THEN Commit(m1, cs, retval, status)
        ELSE IF err # 0
        THEN Commit(spn_vm_seterrmsg(m1, "error in function", err),
                    SubSeq(cs, 1, Len(cs) - 1), retval, err)
        ELSE IF m1.haserror # 0
        THEN Commit([m1 EXCEPT !.fault = "assert"], cs, retval, status)
        ELSE Commit(pop_frame(m1), [cs EXCEPT ![Len(cs)].ip = ip + Top.narg],
                    retval, status)

NativeReturn ==
    /\ fault = "none"
    /\ InNative
    /\ isnil(retval)
    /\ \E err \in NativeCodes : \E out \in OutKinds :
          /\ out = "new" => HasFree(heap, 1)
          /\ out = "arg" => Len(Top.argv) > 0
          /\ IF Top.via = "host" THEN callfunc_native_return(err, out)
             ELSE ins_call_native_return(err, out)

-----------------------------------------------------------------------------
(* The dispatcher: one action per opcode.  Top.ip is the address of the    *)
(* instruction word fetched; `ip` below is the pointer after the fetch.    *)

\* rounding down instead of up
ROUNDUP_floor(n, w) == n \div w

ROUNDUP(n, w) == (n + w - 1) \div w

CanFetch ==
    /\ fault = "none"
    /\ InDispatch
    /\ sp > 0
    /\ stack[sp].k = "h"

CurFn == FuncDef(heap[Hdr(TheVM).callee].def)
\* the instruction and its trailing words lie inside the running function's body
Fits(len) == Top.ip + len <= BodyEnd(CurFn.entry)

SetIp(ip) == [cstack EXCEPT ![Len(cstack)].ip = ip]

\* dispatch_loop returns err to spn_vm_callfunc, which returns it to its caller
Return(m, err, rv) == Commit(m, Below, rv, err)

\* SPN_INS_CALL, with the stack depth the model follows it to
ins_call_within(a, b, argregs, depth) ==
    LET m          == TheVM
        ip         == Top.ip + 1
        retidx     == RegIdx(sp, a) - 1
        func       == Reg(m, b)
        argc       == Len(argregs)
        narggroups == ROUNDUP(argc, SPN_WORD_OCTETS)
    IN  /\ Fits(1 + narggroups)
        /\ IF ~isfunc(func)
           THEN Return(runtime_error(m, ip - 1, "attempt to call non-function value", 0),
                       -1, retval)
           ELSE IF ~Valid(m, func)
           THEN Commit(Ub(m), cstack, retval, status)
           ELSE IF FuncDef(heap[func.v].def).native
           THEN /\ Len(cstack) < MaxCDepth
                /\ sp + EXTRA_SLOTS <= depth
                /\ Commit(push_native_pseudoframe(m, func.v),
                          Append(SetIp(ip),
                                 NatCtx("call", retidx, narggroups,
                                        [i \in 1 .. argc |-> Reg(m, argregs[i])], sp,
                                        ncalls, stackallsz)),
                          retval, status)
           ELSE /\ sp + FrameSize(heap, func.v, argc) <= depth
                /\ readsymtab = 1 \/ HasFree(heap, 2)
                /\ LET fnhdr   == FuncDef(heap[func.v].def)
                       retaddr == ip + narggroups
                       m1 == IF fnhdr.topprg THEN read_local_symtab(m) ELSE m
                       m2 == push_and_copy_args(m1, func.v,
                                 ScriptDesc(argregs, retaddr, sp, retidx), argc)
                   IN  Commit(m2, SetIp(fnhdr.entry), retval, status)

ins_call(a, b, argregs) == ins_call_within(a, b, argregs, MaxSp)

\* RET that hands the value over without retaining it
ins_ret_noretain(a) ==
    LET m      == TheVM
        callee == Hdr(m)
        res    == Reg(m, a)
        m1 == IF callee.retidx < 0 THEN m
              ELSE SetSlot(spn_value_release(m, m.stack[callee.retidx + 1].val),
                           callee.retidx + 1, res)
        m2 == pop_frame(m1)
    IN  /\ Fits(1)
        /\ IF callee.retaddr = NULLADDR
           THEN Return(m2, 0, IF callee.retidx < 0 THEN res ELSE retval)
           ELSE Commit(m2, SetIp(callee.retaddr), retval, status)

ins_ret(a) ==
    LET m      == TheVM
        callee == Hdr(m)
        res    == Reg(m, a)
        m1 == IF callee.retidx < 0 THEN spn_value_retain(m, res)
              ELSE LET r == spn_value_retain(m, res)
                   IN  SetSlot(spn_value_release(r, r.stack[callee.retidx + 1].val),
                               callee.retidx + 1, res)
        m2 == pop_frame(m1)
    IN  /\ Fits(1)
        /\ IF callee.retaddr = NULLADDR
           THEN Return(m2, 0, IF callee.retidx < 0 THEN res ELSE retval)
           ELSE Commit(m2, SetIp(callee.retaddr), retval, status)

ConstKinds == {"nil"}

\* the constant LDCONST loads: kind is the B operand, num the number that
\* follows the instruction word for SPN_CONST_INT and SPN_CONST_FLOAT
ConstValue(kind, num) ==
    CASE kind = "nil"   -> makenil
      [] kind = "true"  -> makebool(TRUE)
      [] kind = "false" -> makebool(FALSE)
      [] kind = "int"   -> makeint(num)
      [] OTHER          -> makefloat(num, 1)

ins_ldconst(a, kind, num) ==
    LET m  == TheVM
        nwords == IF kind \in {"int", "float"} THEN ROUNDUP(SIZEOF_NUM, SPN_WORD_OCTETS) ELSE 0
        m1 == spn_value_release(m, Reg(m, a))
    IN  /\ Fits(1 + nwords)
        /\ Commit(SetSlot(m1, RegIdx(sp, a), ConstValue(kind, num)),
                  SetIp(Top.ip + 1 + nwords), retval, status)

\* LDSYM that loads the entry as it is, without resolving a stub
ins_ldsym_raw(a, symidx) ==
    LET m   == TheVM
        ip  == Top.ip + 1
        sym == symtab[symidx + 1]
        m2  == spn_value_release(spn_value_retain(m, sym), Reg(m, a))
    IN  /\ Fits(1)
        /\ Commit(SetSlot(m2, RegIdx(sp, a), sym), SetIp(ip), retval, status)

\* LDSYM that resolves the stub but does not write the result back to the
\* local symbol table
ins_ldsym_nocache(a, symidx) ==
    LET m   == TheVM
        ip  == Top.ip + 1
        sym == symtab[symidx + 1]
        r   == IF is_symstub(sym) THEN resolve_symbol(m, ip - 1, sym)
               ELSE [m |-> m, err |-> 0, sym |-> sym]
        m2  == spn_value_release(spn_value_retain(r.m, r.sym), Reg(r.m, a))
    IN  /\ Fits(1)
        /\ IF r.err # 0 THEN Return(r.m, -1, retval)
           ELSE Commit(SetSlot(m2, RegIdx(sp, a), r.sym), SetIp(ip), retval, status)

ins_ldsym(a, symidx) ==
    LET m   == TheVM
        ip  == Top.ip + 1
        sym == symtab[symidx + 1]
        r   == IF is_symstub(sym) THEN resolve_symbol(m, ip - 1, sym)
               ELSE [m |-> m, err |-> 0, sym |-> sym]
        m1  == IF is_symstub(sym) THEN symtab_set(r.m, symidx, r.sym) ELSE r.m
        m2  == spn_value_release(spn_value_retain(m1, r.sym), Reg(m1, a))
    IN  /\ Fits(1)
        /\ IF r.err # 0 THEN Return(r.m, -1, retval)
           ELSE Commit(SetSlot(m2, RegIdx(sp, a), r.sym), SetIp(ip), retval, status)

\* MOV that releases the destination before it retains the source
ins_mov_releasefirst(a, b) ==
    LET m  == TheVM
        m1 == spn_value_retain(spn_value_release(m, Reg(m, a)), Reg(m, b))
    IN  /\ Fits(1)
        /\ Commit(SetSlot(m1, RegIdx(sp, a), Reg(m, b)), SetIp(Top.ip + 1), retval, status)

ins_mov(a, b) ==
    LET m  == TheVM
        m1 == spn_value_release(spn_value_retain(m, Reg(m, b)), Reg(m, a))
    IN  /\ Fits(1)
        /\ Commit(SetSlot(m1, RegIdx(sp, a), Reg(m, b)), SetIp(Top.ip + 1), retval, status)

ins_newarr(a) ==
    LET m  == TheVM
        m1 == spn_value_release(m, Reg(m, a))
    IN  /\ Fits(1)
        /\ HasFree(m1.heap, 1)
        /\ Commit(SetSlot(NewObj(m1, "arr", ""), RegIdx(sp, a), MkRef("arr", Alloc(m1.heap))),
                  SetIp(Top.ip + 1), retval, status)

\* the key a string spells, "" if it spells none of Keys ('g' is 103; 'l',
\* 'i', 'b' are 108, 105, 98)
KeyOfStr(cstr) ==
    IF cstr = <<103>> THEN "g" ELSE IF cstr = <<108, 105, 98>> THEN "lib" ELSE ""

\* spn_array_get: the value under `key` in array object arr, nil if there is
\* none; the arrays here have entries under the keys Keys only
spn_array_get(m, arr, key) ==
    IF isstring(key) /\ KeyOfStr(m.heap[key.v].cstr) \in Keys
    THEN m.heap[arr].tab[KeyOfStr(m.heap[key.v].cstr)]
    ELSE makenil

\* the character stored in the result as it is, a plain char
ToUChar_plain(c) == c

\* the conversion of a char to unsigned char
ToUChar(c) == c % 256

ins_arrget(a, b, c) ==
    LET m  == TheVM
        ip == Top.ip + 1
        vb == Reg(m, b)
        vc == Reg(m, c)
    IN  /\ Fits(1)
        /\ IF isarray(vb)
           THEN IF ~Valid(m, vb) \/ (isstring(vc) /\ ~Valid(m, vc))
                THEN Commit(Ub(m), cstack, retval, status)
                ELSE LET val == spn_array_get(m, vb.v, vc)
                         m1  == spn_value_release(spn_value_retain(m, val), Reg(m, a))
                     IN  Commit(SetSlot(m1, RegIdx(sp, a), val), SetIp(ip), retval, status)
           ELSE IF isstring(vb)
           THEN IF ~Valid(m, vb) THEN Commit(Ub(m), cstack, retval, status)
                ELSE LET str == m.heap[vb.v]
                         len == Len(str.cstr)
                     IN  IF ~isint(vc)
                         THEN Return(runtime_error(m, ip - 1,
                                         "indexing string with non-integer value", 0),
                                     -1, retval)
                         ELSE LET idx == IF vc.v < 0 THEN len + vc.v ELSE vc.v
                              IN  IF idx < 0 \/ idx >= len
                                  THEN Return(runtime_error(m, ip - 1,
                                                  "character at normalized index is out of bounds",
                                                  idx),
                                              -1, retval)
                                  ELSE LET ch == ToUChar(str.cstr[idx + 1])
                                           m1 == spn_value_release(m, Reg(m, a))
                                       IN  Commit(SetSlot(m1, RegIdx(sp, a), makeint(ch)),
                                                  SetIp(ip), retval, status)
           ELSE Return(runtime_error(m, ip - 1,
                           "first operand of [] operator must be an array or a string", 0),
                       -1, retval)

\* spn_array_count: the number of entries of an array
spn_array_count(m, arr) == Cardinality({k \in Keys : ~isnil(m.heap[arr].tab[k])})

\* sizeof_value: the length of a string, the number of entries of an array
sizeof_value(m, val) ==
    IF isstring(val) THEN makeint(Len(m.heap[val.v].cstr))
    ELSE makeint(spn_array_count(m, val.v))

\* SIZEOF that releases its destination register before it checks its operand
ins_sizeof_releasefirst(a, b) ==
    LET m  == spn_value_release(TheVM, Reg(TheVM, a))
        ip == Top.ip + 1
        vb == Reg(m, b)
    IN  /\ Fits(1)
        /\ IF ~isarray(vb) /\ ~isstring(vb)
           THEN Return(runtime_error(m, ip - 1, "sizeof applied to a value of this type", 0),
                       -1, retval)
           ELSE IF ~Valid(m, vb) THEN Commit(Ub(m), cstack, retval, status)
           ELSE Commit(SetSlot(m, RegIdx(sp, a), sizeof_value(m, vb)),
                       SetIp(ip), retval, status)

ins_sizeof(a, b) ==
    LET m  == TheVM
        ip == Top.ip + 1
        vb == Reg(m, b)
    IN  /\ Fits(1)
        /\ IF ~isarray(vb) /\ ~isstring(vb)
           THEN Return(runtime_error(m, ip - 1, "sizeof applied to a value of this type", 0),
                       -1, retval)
           ELSE IF ~Valid(m, vb) THEN Commit(Ub(m), cstack, retval, status)
           ELSE Commit(SetSlot(spn_value_release(m, Reg(m, a)), RegIdx(sp, a),
                               sizeof_value(m, vb)),
                       SetIp(ip), retval, status)

\* the new string is made before the destination register is released
ins_concat(a, b, c) ==
    LET m  == TheVM
        ip == Top.ip + 1
        vb == Reg(m, b)
        vc == Reg(m, c)
    IN  /\ Fits(1)
        /\ IF ~isstring(vb) \/ ~isstring(vc)
           THEN Return(runtime_error(m, ip - 1, "concatenation of non-string values", 0),
                       -1, retval)
           ELSE IF ~Valid(m, vb) \/ ~Valid(m, vc) THEN Commit(Ub(m), cstack, retval, status)
           ELSE /\ HasFree(heap, 1)
                /\ Len(heap[vb.v].cstr) + Len(heap[vc.v].cstr) <= MaxStrLen
                /\ LET res == Alloc(heap)
                       m1  == [NewObj(m, "str", "") EXCEPT
                                  !.heap[res].cstr = heap[vb.v].cstr \o heap[vc.v].cstr]
                       m2  == spn_value_release(m1, Reg(m1, a))
                   IN  Commit(SetSlot(m2, RegIdx(sp, a), MkRef("str", res)),
                              SetIp(ip), retval, status)

\* the default case: an opcode that is none of the instruction set
ins_illegal ==
    /\ Fits(1)
    /\ Return(runtime_error(TheVM, Top.ip, "illegal instruction", 0), -1, retval)

\* length of the global's name in octets
NameLen(name) == 1

\* GLBVAL that stores without looking the name up first
ins_glbval_overwrite(a, name) ==
    LET m      == TheVM
        nwords == ROUNDUP(NameLen(name) + 1, SPN_WORD_OCTETS)
        ip     == Top.ip + 1 + nwords
    IN  /\ Fits(1 + nwords)
        /\ Commit([glb_set(m, name, Reg(m, a)) EXCEPT !.registered = @ \cup {name}],
                  SetIp(ip), retval, status)

ins_glbval(a, name) ==
    LET m      == TheVM
        nwords == ROUNDUP(NameLen(name) + 1, SPN_WORD_OCTETS)
        ip     == Top.ip + 1 + nwords
        auxval == glbsymtab[name]
    IN  /\ Fits(1 + nwords)
        /\ IF ~isnil(auxval)
           THEN Return(runtime_error(m, ip - nwords - 1, "re-definition of global", 0),
                       -1, retval)
           ELSE Commit([glb_set(m, name, Reg(m, a)) EXCEPT !.registered = @ \cup {name}],
                       SetIp(ip), retval, status)

-----------------------------------------------------------------------------
(* Arguments, jumps, arithmetic, closures *)

ins_ldargc(a) ==
    LET m  == TheVM
        m1 == spn_value_release(m, Reg(m, a))
    IN  /\ Fits(1)
        /\ Commit(SetSlot(m1, RegIdx(sp, a), makeint(Hdr(m).real_argc)),
                  SetIp(Top.ip + 1), retval, status)

\* NTHARG without the upper bound check on the index
ins_ntharg_unchecked(a, b) ==
    LET m   == TheVM
        ip  == Top.ip + 1
        bv  == Reg(m, b)
    IN  /\ Fits(1)
        /\ IF ~isint(bv)
           THEN Return(runtime_error(m, ip - 1, "non-integer argument to `#' operator", 0),
                       -1, retval)
           ELSE IF bv.v < 0
           THEN Return(runtime_error(m, ip - 1, "negative argument to `#' operator", 0),
                       -1, retval)
           ELSE LET ai   == nth_vararg_idx(m, bv.v)
                    argp == IF ai >= 1 /\ m.stack[ai].k = "v" THEN m.stack[ai].val ELSE Nil
                    m1   == spn_value_release(spn_value_retain(m, argp), Reg(m, a))
                IN  Commit(SetSlot(m1, RegIdx(sp, a), argp), SetIp(ip), retval, status)

ins_ntharg(a, b) ==
    LET m   == TheVM
        ip  == Top.ip + 1
        hdr == Hdr(m)
        bv  == Reg(m, b)
    IN  /\ Fits(1)
        /\ IF ~isint(bv)
           THEN Return(runtime_error(m, ip - 1, "non-integer argument to `#' operator", 0),
                       -1, retval)
           ELSE IF bv.v < 0
           THEN Return(runtime_error(m, ip - 1, "negative argument to `#' operator", 0),
                       -1, retval)
           ELSE IF bv.v < hdr.extra_argc
           THEN LET argp == m.stack[nth_vararg_idx(m, bv.v)].val
                    m1   == spn_value_release(spn_value_retain(m, argp), Reg(m, a))
                IN  Commit(SetSlot(m1, RegIdx(sp, a), argp), SetIp(ip), retval, status)
           ELSE Return(runtime_error(m, ip - 1,
                                     "argument `%d' of `#' operator is out-of bounds", 0),
                       -1, retval)

\* the address lies in the body of the running function
InBody(ip) == ip >= CurFn.entry /\ ip <= BodyEnd(CurFn.entry)

JumpOps == {"JZE", "JNZ"}

\* a conditional jump that tests the register the wrong way round
ins_jze_jnz_swapped(opcode, a, offset) ==
    LET m   == TheVM
        ip  == Top.ip + 2
        reg == Reg(m, a)
    IN  /\ Fits(2)
        /\ IF ~isbool(reg)
           THEN Return(runtime_error(m, ip - 2,
                           "register does not contain Boolean value in conditional jump", 0),
                       -1, retval)
           ELSE LET taken == \/ opcode = "JZE" /\ reg.v # 0
                             \/ opcode = "JNZ" /\ reg.v = 0
                    nip   == IF taken THEN ip + offset ELSE ip
                IN  /\ InBody(nip)
                    /\ Commit(m, SetIp(nip), retval, status)

\* JZE and JNZ; ip has passed the instruction word and the offset word
\* a conditional jump that reports the address of its offset word
ins_jze_jnz_offsetword(opcode, a, offset) ==
    LET m   == TheVM
        ip  == Top.ip + 2
        reg == Reg(m, a)
    IN  /\ Fits(2)
        /\ IF ~isbool(reg)
           THEN Return(runtime_error(m, ip - 1,
                           "register does not contain Boolean value in conditional jump", 0),
                       -1, retval)
           ELSE LET taken == \/ opcode = "JZE" /\ reg.v = 0
                             \/ opcode = "JNZ" /\ reg.v # 0
                    nip   == IF taken THEN ip + offset ELSE ip
                IN  /\ InBody(nip)
                    /\ Commit(m, SetIp(nip), retval, status)

ins_jze_jnz(opcode, a, offset) ==
    LET m   == TheVM
        ip  == Top.ip + 2
        reg == Reg(m, a)
    IN  /\ Fits(2)
        /\ IF ~isbool(reg)
           THEN Return(runtime_error(m, ip - 2,
                           "register does not contain Boolean value in conditional jump", 0),
                       -1, retval)
           ELSE LET taken == \/ opcode = "JZE" /\ reg.v = 0
                             \/ opcode = "JNZ" /\ reg.v # 0
                    nip   == IF taken THEN ip + offset ELSE ip
                IN  /\ InBody(nip)
                    /\ Commit(m, SetIp(nip), retval, status)

ArithOps == {"ADD", "SUB", "MUL", "DIV"}

\* C division of longs truncates toward zero
CDiv(a, b) == IF (a < 0) = (b < 0) THEN Abs(a) \div Abs(b) ELSE -(Abs(a) \div Abs(b))

\* a finite number the model represents
InRange(x) == Abs(x.v) <= MaxNum /\ x.d >= 1 /\ x.d <= MaxNum

(* arith_op: [val, ub].  Operands that are both Int give the long result;  *)
(* a long division by zero is undefined.  Otherwise both operands are      *)
(* converted to double; a double division by zero gives an infinity or a   *)
(* NaN, written here as v / 0 with v the sign.                             *)
arith_op(lhs, rhs, op) ==
    IF isfloat(lhs) \/ isfloat(rhs)
    THEN LET a == lhs.v  b == lhs.d  c == rhs.v  e == rhs.d
         IN  [ub |-> FALSE,
              val |-> CASE op = "ADD" -> makefloat(a * e + c * b, b * e)
                        [] op = "SUB" -> makefloat(a * e - c * b, b * e)
                        [] op = "MUL" -> makefloat(a * c, b * e)
                        [] OTHER      -> IF c # 0 THEN makefloat(a * e, b * c)
                                         ELSE [t |-> "float", d |-> 0,
                                               v |-> IF a > 0 THEN 1 ELSE IF a < 0 THEN -1 ELSE 0]]
    ELSE LET a == lhs.v  b == rhs.v
         IN  IF op = "DIV" /\ b = 0 THEN [ub |-> TRUE, val |-> makeint(0)]
             ELSE [ub |-> FALSE,
                   val |-> CASE op = "ADD" -> makeint(a + b)
                             [] op = "SUB" -> makeint(a - b)
                             [] op = "MUL" -> makeint(a * b)
                             [] OTHER      -> makeint(CDiv(a, b))]

ins_arith(op, a, b, c) ==
    LET m  == TheVM
        ip == Top.ip + 1
        bv == Reg(m, b)
        cv == Reg(m, c)
    IN  /\ Fits(1)
        /\ IF ~isnum(bv) \/ ~isnum(cv)
           THEN Return(runtime_error(m, ip - 1, "arithmetic on non-numbers", 0), -1, retval)
           ELSE /\ InRange(bv) /\ InRange(cv)
                /\ LET r == arith_op(bv, cv, op)
                   IN  IF r.ub THEN Commit(Ub(m), cstack, retval, status)
                       ELSE /\ Abs(r.val.v) <= MaxNum /\ r.val.d <= MaxNum
                            /\ Commit(SetSlot(spn_value_release(m, Reg(m, a)), RegIdx(sp, a),
                                              r.val),
                                      SetIp(ip), retval, status)

\* the C remainder of longs: a - (a / b) * b, b # 0
CMod(a, b) == a - CDiv(a, b) * b

\* SPN_INS_MOD: the long remainder of two Ints; a remainder by zero is
\* undefined
ins_mod(a, b, c) ==
    LET m  == TheVM
        ip == Top.ip + 1
        bv == Reg(m, b)
        cv == Reg(m, c)
    IN  /\ Fits(1)
        /\ IF ~isint(bv) \/ ~isint(cv)
           THEN Return(runtime_error(m, ip - 1, "modulo division on non-integers", 0),
                       -1, retval)
           ELSE /\ InRange(bv) /\ InRange(cv)
                /\ IF cv.v = 0 THEN Commit(Ub(m), cstack, retval, status)
                   ELSE Commit(SetSlot(spn_value_release(m, Reg(m, a)), RegIdx(sp, a),
                                       makeint(CMod(bv.v, cv.v))),
                               SetIp(ip), retval, status)

\* upvalue descriptors: the opcode field selects the kind, A is the index
UpvalKinds == {"local", "outer"}

\* spn_func_new_closure: a function object with the prototype's name and
\* bytecode and an empty upvalue array
NewClosure(m, prototype) ==
    [m EXCEPT !.heap[Alloc(m.heap)] =
                  [FreeObj EXCEPT !.rc = 1, !.kind = "func", !.def = m.heap[prototype].def,
                                  !.clo = TRUE]]

\* spn_array_get_intkey on an upvalue array: Nil where there is no entry
UpvalAt(o, i) == IF i + 1 <= Len(o.upv) THEN o.upv[i + 1] ELSE Nil

RECURSIVE CaptureUpvals(_, _, _, _, _)
\* the loop of SPN_INS_CLOSURE: descriptor i + 1 fills upvalue i of closure c
CaptureUpvals(m, c, enclosing_fn, descs, i) ==
    IF i >= Len(descs) \/ m.fault # "none" THEN m
    ELSE LET desc == descs[i + 1] IN
         IF desc.type = "local"
         THEN LET upval == Reg(m, desc.idx)
                  m1 == spn_value_retain(m, upval)
              IN  CaptureUpvals([m1 EXCEPT !.heap[c].upv = Append(@, upval)],
                                c, enclosing_fn, descs, i + 1)
         ELSE IF ~m.heap[enclosing_fn].clo
         THEN [m EXCEPT !.fault = "assert"]         \* assert(enclosing_fn->upvalues)
         ELSE LET upval == UpvalAt(m.heap[enclosing_fn], desc.idx)
                  m1 == spn_value_retain(m, upval)
              IN  CaptureUpvals([m1 EXCEPT !.heap[c].upv = Append(@, upval)],
                                c, enclosing_fn, descs, i + 1)

\* CLOSURE that hands the prototype's own function object out as the closure
ins_closure_shared(a, descs) ==
    LET m  == TheVM
        ip == Top.ip + 1
        enclosing_fn  == Hdr(m).callee
        prototype_val == Reg(m, a)
    IN  /\ Fits(1 + Len(descs))
        /\ HasFree(heap, 1)
        /\ IF ~isfunc(prototype_val)
           THEN Commit([m EXCEPT !.fault = "assert"], cstack, retval, status)
           ELSE IF ~Valid(m, prototype_val)
           THEN Commit(Ub(m), cstack, retval, status)
           ELSE LET c  == prototype_val.v
                    m1 == [m EXCEPT !.heap[c].clo = TRUE, !.heap[c].upv = <<>>]
                    m2 == CaptureUpvals(m1, c, enclosing_fn, descs, 0)
                IN  Commit(m2, SetIp(ip + Len(descs)), retval, status)

ins_closure(a, descs) ==
    LET m  == TheVM
        ip == Top.ip + 1
        enclosing_fn  == Hdr(m).callee
        prototype_val == Reg(m, a)
    IN  /\ Fits(1 + Len(descs))
        /\ HasFree(heap, 1)
        /\ IF ~isfunc(prototype_val)
           THEN Commit([m EXCEPT !.fault = "assert"], cstack, retval, status)
           ELSE IF ~Valid(m, prototype_val)
           THEN Commit(Ub(m), cstack, retval, status)
           ELSE LET c  == Alloc(m.heap)
                    m1 == NewClosure(m, prototype_val.v)
                    m2 == CaptureUpvals(m1, c, enclosing_fn, descs, 0)
                    m3 == spn_value_release(m2, prototype_val)
                IN  Commit(SetSlot(m3, RegIdx(sp, a), MkRef("func", c)),
                           SetIp(ip + Len(descs)), retval, status)

\* the running function is a live closure, so that its upvalue array can be read
HasUpvalues(m, fn) == m.heap[fn].rc > 0 /\ m.heap[fn].kind = "func" /\ m.heap[fn].clo

(* LDUPVAL: the register is released first, then the upvalue is read from  *)
(* the running function's upvalue array and retained.                      *)
ins_ldupval(a, upval_index) ==
    LET m  == TheVM
        current_fn == Hdr(m).callee
        m1 == spn_value_release(m, Reg(m, a))
    IN  /\ Fits(1)
        /\ IF m1.fault # "none" \/ ~HasUpvalues(m1, current_fn)
           THEN Commit(Ub(m1), cstack, retval, status)
           ELSE LET reg == UpvalAt(m1.heap[current_fn], upval_index)
                IN  Commit(SetSlot(spn_value_retain(m1, reg), RegIdx(sp, a), reg),
                           SetIp(Top.ip + 1), retval, status)

INS_CALL ==
    /\ CanFetch
    /\ \E a \in Regs(TheVM) : \E b \in Regs(TheVM) : \E argc \in 0 .. MaxArgc :
          \E argregs \in [1 .. argc -> Regs(TheVM)] : ins_call(a, b, argregs)
INS_RET == CanFetch /\ \E a \in Regs(TheVM) : ins_ret(a)
INS_LDCONST == CanFetch /\ \E a \in Regs(TheVM) : \E kind \in ConstKinds : ins_ldconst(a, kind, 0)
INS_LDSYM ==
    CanFetch /\ \E a \in Regs(TheVM) : \E symidx \in 0 .. (Len(symtab) - 1) : ins_ldsym(a, symidx)
INS_MOV == CanFetch /\ \E a \in Regs(TheVM) : \E b \in Regs(TheVM) : ins_mov(a, b)
INS_NEWARR == CanFetch /\ \E a \in Regs(TheVM) : ins_newarr(a)
INS_GLBVAL == CanFetch /\ \E a \in Regs(TheVM) : \E name \in Names : ins_glbval(a, name)

-----------------------------------------------------------------------------

Next ==
    \/ CallFunc
    \/ SetErrMsg
    \/ DropRetval
    \/ spn_vm_addlib_cfuncs
    \/ RemoveGlobal
    \/ NativeReturn
    \/ INS_CALL
    \/ INS_RET
    \/ INS_LDCONST
    \/ INS_LDSYM
    \/ INS_MOV
    \/ INS_NEWARR
    \/ INS_GLBVAL

Spec == Init /\ [][Next]_vars

-----------------------------------------------------------------------------
(* The instruction set at work.  Three further specifications run the same *)
(* VM from the same initial state with other host programs and other       *)
(* opcodes in the instruction stream:                                      *)
(*   SpecAlu   jumps and arithmetic on the arguments of the program;       *)
(*   SpecArgs  argument binding, LDARGC, NTHARG, calls and returns;        *)
(*   SpecClo   closures and upvalues.                                      *)

\* the argument vectors of at most k <= 2 of the values vals
Vectors(vals, k) ==
    {<<>>} \cup (IF k >= 1 THEN {<<x>> : x \in vals} ELSE {})
           \cup (IF k >= 2 THEN {<<x, y>> : x \in vals, y \in vals} ELSE {})

\* the host calls one of fns with at most k of the values vals as arguments,
\* at most n times in a run
HostCalls(fns, vals, k, n) ==
    /\ InHost
    /\ ncalls < n
    /\ \E fn \in fns : \E argv \in Vectors(vals, k) : isfunc(fn) /\ spn_vm_callfunc(fn, argv)

\* the host moves the function it was returned into a variable of its own,
\* releasing the one it kept there
HostKeep ==
    /\ fault = "none"
    /\ InHost
    /\ isfunc(retval)
    /\ CommitH(spn_value_release(TheVM, held), cstack, makenil, status, ncalls, retval)

INS_LDARGC == CanFetch /\ \E a \in Regs(TheVM) : ins_ldargc(a)
INS_NTHARG == CanFetch /\ \E a \in Regs(TheVM) : \E b \in Regs(TheVM) : ins_ntharg(a, b)
INS_JZE_JNZ ==
    CanFetch /\ \E opcode \in JumpOps : \E a \in Regs(TheVM) : \E offset \in -2 .. 1 :
                    ins_jze_jnz(opcode, a, offset)
INS_ARITH ==
    CanFetch /\ \E op \in ArithOps : \E a \in Regs(TheVM) : \E b \in Regs(TheVM) :
                    \E c \in Regs(TheVM) : ins_arith(op, a, b, c)
INS_MOD ==
    CanFetch /\ \E a \in Regs(TheVM) : \E b \in Regs(TheVM) : \E c \in Regs(TheVM) :
                    ins_mod(a, b, c)
UpvalDescs == {[type |-> t, idx |-> i] : t \in UpvalKinds, i \in 0 .. MaxSp}
INS_CLOSURE ==
    CanFetch /\ \E a \in Regs(TheVM) : \E n \in 0 .. MaxUpvals :
                    \E descs \in [1 .. n -> UpvalDescs] :
                        /\ \A i \in 1 .. n :
                              IF descs[i].type = "local" THEN descs[i].idx \in Regs(TheVM)
                              ELSE descs[i].idx < MaxUpvals
                        /\ ins_closure(a, descs)
INS_LDUPVAL ==
    CanFetch /\ \E a \in Regs(TheVM) : \E i \in 0 .. (MaxUpvals - 1) : ins_ldupval(a, i)

\* numbers, Booleans and nil as arguments of the program
AluValues ==
    {makenil, makeint(-1), makeint(0), makeint(2), makebool(TRUE), makebool(FALSE),
     makefloat(1, 2), makefloat(0, 1)}
HostCallAlu == HostCalls({MkRef("func", ProgObj)}, AluValues, 2, 1)
INS_LDCONST_NUM ==
    CanFetch /\ \E a \in Regs(TheVM) : \E kind \in {"true", "int", "float"} :
                    ins_ldconst(a, kind, 1)

NextAlu ==
    \/ HostCallAlu
    \/ DropRetval
    \/ INS_RET
    \/ INS_MOV
    \/ INS_LDCONST_NUM
    \/ INS_JZE_JNZ
    \/ INS_ARITH
    \/ INS_MOD

SpecAlu == Init /\ [][NextAlu]_vars

\* the program, the function the host kept, and small integers as arguments
ArgsValues == {makeint(-1), makeint(0), makeint(1), makebool(TRUE)}
HostCallArgs == HostCalls({MkRef("func", ProgObj), held}, ArgsValues, 2, 2)

NextArgs ==
    \/ HostCallArgs
    \/ HostKeep
    \/ DropRetval
    \/ spn_vm_addlib_cfuncs
    \/ NativeReturn
    \/ INS_CALL
    \/ INS_RET
    \/ INS_LDSYM
    \/ INS_LDARGC
    \/ INS_NTHARG

SpecArgs == Init /\ [][NextArgs]_vars

CloValues == {makeint(1)} \cup (IF isnil(held) THEN {} ELSE {held})
HostCallClo == HostCalls({MkRef("func", ProgObj), held}, CloValues, 1, MaxCalls)

NextClo ==
    \/ HostCallClo
    \/ HostKeep
    \/ DropRetval
    \/ spn_vm_addlib_cfuncs
    \/ NativeReturn
    \/ INS_CALL
    \/ INS_RET
    \/ INS_LDSYM
    \/ INS_MOV
    \/ INS_CLOSURE
    \/ INS_LDUPVAL

SpecClo == Init /\ [][NextClo]_vars

-----------------------------------------------------------------------------
(* A growing stack: the host calls the program with enough arguments for   *)
(* its frame to fill the first allocation, so that the frame a CALL pushes *)
(* makes expand_stack reallocate the stack.                                *)

HostCallDeep ==
    /\ InHost
    /\ ncalls < 1
    /\ \E n \in 0 .. MaxArgcDeep :
          spn_vm_callfunc_within(MkRef("func", ProgObj), [i \in 1 .. n |-> makeint(i % 2)],
                                 MaxSpDeep)
INS_CALL_DEEP ==
    /\ CanFetch
    /\ \E a \in Regs(TheVM) : \E b \in Regs(TheVM) : \E argc \in 0 .. MaxArgc :
          \E argregs \in [1 .. argc -> Regs(TheVM)] : ins_call_within(a, b, argregs, MaxSpDeep)

NextDeep ==
    \/ HostCallDeep
    \/ DropRetval
    \/ spn_vm_addlib_cfuncs
    \/ NativeReturn
    \/ INS_CALL_DEEP
    \/ INS_RET
    \/ INS_LDSYM

SpecDeep == Init /\ [][NextDeep]_vars

-----------------------------------------------------------------------------
(* Calls of native functions with several arguments: the host calls the    *)
(* program with up to two arguments, the program loads functions and calls *)
(* them with up to MaxArgcNat argument registers, and a callback returns   *)
(* a code and an out-value without calling back into the VM.               *)

MaxArgcNat == 2   \* arguments at a call site of a native function

HostCallNat == HostCalls({MkRef("func", ProgObj)}, {makeint(0), makeint(1)}, 2, 1)

INS_CALL_NAT ==
    /\ CanFetch
    /\ \E a \in Regs(TheVM) : \E b \in Regs(TheVM) : \E argc \in 0 .. MaxArgcNat :
          \E argregs \in [1 .. argc -> Regs(TheVM)] : ins_call(a, b, argregs)

NextNat ==
    \/ HostCallNat
    \/ DropRetval
    \/ spn_vm_addlib_cfuncs
    \/ NativeReturn
    \/ INS_CALL_NAT
    \/ INS_RET
    \/ INS_LDSYM

SpecNat == Init /\ [][NextNat]_vars

-----------------------------------------------------------------------------
(* Library installation.  The host installs native functions and values,   *)
(* globally (a NULL library name) or in the library array bound to a       *)
(* library name in the global table.                                       *)

NULLNAME == "NULL"
LibNames == {NULLNAME} \cup Keys

\* the storage the entries go to: 0 for the global table, else the library
\* array, which is created and bound if the library name is unbound
LibStorage(m, libname) ==
    IF libname = NULLNAME THEN [m |-> m, storage |-> 0]
    ELSE LET libval == m.glbsymtab[libname]
         IN  IF isnil(libval)
             THEN LET arr == MkRef("arr", Alloc(m.heap))
                      m1  == NewObj(m, "arr", "")
                  IN  [m |-> spn_value_release(glb_set(m1, libname, arr), arr),
                       storage |-> arr.v]
             ELSE IF libval.t = "arr" /\ Valid(m, libval)
             THEN [m |-> m, storage |-> libval.v]
             ELSE [m |-> Ub(m), storage |-> 0]     \* arrayvalue() of a non-array

\* spn_array_set_strkey on the global table or on a library array
spn_array_set_strkey(m, storage, name, x) ==
    IF storage = 0 THEN glb_set(m, name, x)
    ELSE LET m1 == spn_value_retain(m, x)
             m2 == spn_value_release(m1, m1.heap[storage].tab[name])
         IN  [m2 EXCEPT !.heap[storage].tab[name] = x]

RECURSIVE AddCFuncs(_, _, _, _)
\* the loop of spn_vm_addlib_cfuncs over fns[i .. n-1]
AddCFuncs(m, storage, fns, i) ==
    IF i > Len(fns) \/ m.fault # "none" THEN m
    ELSE LET val == MkRef("func", Alloc(m.heap))
             m1  == NewObj(m, "func", "N")
             m2  == spn_array_set_strkey(m1, storage, fns[i], val)
         IN  AddCFuncs(spn_value_release(m2, val), storage, fns, i + 1)

RECURSIVE AddValues(_, _, _, _)
\* the loop of spn_vm_addlib_values over vals[i .. n-1]
AddValues(m, storage, vals, i) ==
    IF i > Len(vals) \/ m.fault # "none" THEN m
    ELSE AddValues(spn_array_set_strkey(m, storage, vals[i].name, vals[i].value),
                   storage, vals, i + 1)

\* spn_vm_addlib_cfuncs with a library name and the names of the functions
addlib_cfuncs(libname, fns) ==
    /\ fault = "none"
    /\ InHost
    /\ HasFree(heap, 1 + Len(fns))
    /\ LET r == LibStorage(TheVM, libname)
       IN  Commit(AddCFuncs(r.m, r.storage, fns, 1), cstack, retval, status)

\* spn_vm_addlib_values with a library name and the named values
addlib_values(libname, vals) ==
    /\ fault = "none"
    /\ InHost
    /\ HasFree(heap, 1)
    /\ LET r == LibStorage(TheVM, libname)
       IN  Commit(AddValues(r.m, r.storage, vals, 1), cstack, retval, status)

LibValues == {makeint(1), makeint(2)}
FnLists == UNION {[1 .. n -> Keys] : n \in 1 .. MaxEntries}
ValLists == UNION {[1 .. n -> [name : Keys, value : LibValues]] : n \in 1 .. MaxEntries}

AddLibCFuncs == \E libname \in LibNames : \E fns \in FnLists : addlib_cfuncs(libname, fns)
AddLibValues == \E libname \in LibNames : \E vals \in ValLists : addlib_values(libname, vals)

InitLib ==
    /\ stack = <<>>
    /\ sp = 0
    /\ stackallsz = 0
    /\ glbsymtab = [n \in Keys |-> Nil]
    /\ errmsg = NoMsg
    /\ haserror = 0
    /\ heap = [o \in Objs |-> IF o = 1 THEN [FreeObj EXCEPT !.rc = 1, !.kind = "func", !.def = "P"]
                              ELSE FreeObj]
    /\ symtab = <<>>
    /\ readsymtab = 0
    /\ cstack = <<>>
    /\ retval = Nil
    /\ status = 0
    /\ ncalls = 0
    /\ fault = "none"
    /\ live = <<>>
    /\ lookedup = FALSE
    /\ registered = {}
    /\ held = Nil

NextLib ==
    \/ AddLibCFuncs
    \/ AddLibValues

SpecLib == InitLib /\ [][NextLib]_vars

-----------------------------------------------------------------------------
(* Strings and failing checks.  SpecStr and SpecChk start where the host   *)
(* has called a program whose symbol table holds a string constant beside  *)
(* the stub of g and F, and the program's two registers hold the operands  *)
(* of an indexing expression: the string, a number or nil in register 0,   *)
(* and an index in register 1.  SpecStr runs indexing; SpecChk runs every  *)
(* instruction that makes a check of its own.                              *)

\* the strings: the empty one, and strings with a character above 127
StrContents == {<<>>, <<-56>>, <<65, -56>>}
\* the program's symbol table: the stub of g, F, and the string constant
StrObj == ProgObj + 3
\* what register 0 holds: the string constant, a number or nil
Indexed == {MkRef("str", StrObj), makeint(1), makenil}
\* what register 1 holds
Indices ==
    {makeint(i) : i \in -(MaxStrLen + 1) .. MaxStrLen}
        \cup {makenil, makebool(TRUE), makefloat(1, 2), MkRef("str", StrObj)}
\* what the host has bound to the global g
GlobalInputs == {makenil, makeint(1)}

\* the machine after spn_vm_callfunc has read the symbol table and pushed the
\* program's frame, and the program has loaded b and c into its registers 0
\* and 1
LoadedVM(content, g, b, c) ==
    LET m0 == [stack |-> <<>>, sp |-> 0, stackallsz |-> 0,
               glbsymtab |-> [n \in Names |-> g], errmsg |-> NoMsg, haserror |-> 0,
               heap |-> [o \in Objs |->
                           IF o = ProgObj
                           THEN [FreeObj EXCEPT !.rc = 1, !.kind = "func", !.def = "P"]
                           ELSE FreeObj],
               symtab |-> <<>>, readsymtab |-> 0,
               fault |-> "none", live |-> <<>>, lookedup |-> FALSE, registered |-> {}]
        m1 == read_local_symtab(m0)
        m2 == [NewObj(m1, "str", "") EXCEPT !.heap[StrObj].cstr = content]
        m3 == spn_value_release(symtab_set(m2, 2, MkRef("str", StrObj)), MkRef("str", StrObj))
        m4 == push_frame(m3, FuncDef("P").nregs, 0, 0, 0, NULLADDR, -1, ProgObj)
        m5 == SetSlot(spn_value_retain(m4, b), RegIdx(m4.sp, 0), b)
    IN  SetSlot(spn_value_retain(m5, c), RegIdx(m5.sp, 1), c)

InitStr ==
    \E content \in StrContents : \E g \in GlobalInputs : \E b \in Indexed : \E c \in Indices :
        LET m == LoadedVM(content, g, b, c)
        IN  /\ stack = m.stack
            /\ sp = m.sp
            /\ stackallsz = m.stackallsz
            /\ glbsymtab = m.glbsymtab
            /\ errmsg = m.errmsg
            /\ haserror = m.haserror
            /\ heap = m.heap
            /\ symtab = m.symtab
            /\ readsymtab = m.readsymtab
            /\ cstack = <<DispCtx(FuncDef("P").entry, 0)>>
            /\ retval = Nil
            /\ status = 0
            /\ ncalls = 1
            /\ fault = m.fault
            /\ live = m.live
            /\ lookedup = m.lookedup
            /\ registered = m.registered
            /\ held = Nil

INS_ARRGET ==
    CanFetch /\ \E a \in Regs(TheVM) : \E b \in Regs(TheVM) : \E c \in Regs(TheVM) :
                    ins_arrget(a, b, c)

NextStr ==
    \/ DropRetval
    \/ INS_RET
    \/ INS_MOV
    \/ INS_NEWARR
    \/ INS_ARRGET

SpecStr == InitStr /\ [][NextStr]_vars

INS_SIZEOF == CanFetch /\ \E a \in Regs(TheVM) : \E b \in Regs(TheVM) : ins_sizeof(a, b)
INS_CONCAT ==
    CanFetch /\ \E a \in Regs(TheVM) : \E b \in Regs(TheVM) : \E c \in Regs(TheVM) :
                    ins_concat(a, b, c)
INS_ILLEGAL == CanFetch /\ ins_illegal

NextChk ==
    \/ DropRetval
    \/ INS_RET
    \/ INS_MOV
    \/ INS_NEWARR
    \/ INS_ARRGET
    \/ INS_SIZEOF
    \/ INS_CONCAT
    \/ INS_ILLEGAL
    \/ INS_CALL
    \/ INS_LDSYM
    \/ INS_GLBVAL
    \/ INS_JZE_JNZ
    \/ INS_ARITH
    \/ INS_LDARGC
    \/ INS_NTHARG

SpecChk == InitStr /\ [][NextChk]_vars

-----------------------------------------------------------------------------
(* Properties.  Steps are told apart by what they do to the C call stack   *)
(* and to the call counter: only spn_vm_callfunc changes ncalls, and only  *)
(* a return makes cstack shorter.                                          *)

\* the stack trace a caller of spn_vm_stacktrace gets in the current state
Trace == spn_vm_stacktrace(TheVM)
\* the names of the frames pushed and not yet popped, innermost first
NamesOfLive == [i \in 1 .. Len(live) |-> heap[live[Len(live) - i + 1]].def]
\* the first entry of the stack trace is the native function
NativeFirst == Len(Trace) > 0 /\ Trace[1] = "N"
\* every frame's callee is a live function object, so that its name can be read
TraceDefined == \A i \in 1 .. Len(live) : Valid(TheVM, MkRef("func", live[i]))
\* a native callback is running and has made no spn_vm_callfunc so far
NativeMadeNoCall == InNative /\ ncalls = Top.calls

\* a dispatch_loop returns in this step: an instruction returned, or the
\* native callee of a CALL failed
DispatcherReturns ==
    \/ InDispatch /\ Len(cstack') = Len(cstack) - 1
    \/ InNative /\ Top.via = "call" /\ Len(cstack') = Len(cstack) - 2
\* spn_vm_callfunc returns from a native callee in this step
CallfuncNativeReturns == InNative /\ Top.via = "host" /\ Len(cstack') = Len(cstack) - 1
\* this step is a RET
IsRet == CanFetch /\ \E a \in Regs(TheVM) : ins_ret(a)
\* this step is a spn_vm_callfunc with a value that is not a function
NonFunctionCall ==
    \E fn \in CallerValues : \E argv \in ArgVectors : ~isfunc(fn) /\ spn_vm_callfunc(fn, argv)

\* the number of references to object o held by value slots of live frames,
\* the two symbol tables, the out-value handed to the caller of
\* spn_vm_callfunc and the host's own reference to the program
Owners(o) ==
    Cardinality({i \in 1 .. sp : stack[i].k = "v" /\ isobject(stack[i].val)
                                 /\ stack[i].val.v = o})
    + Cardinality({i \in 1 .. Len(symtab) : isobject(symtab[i]) /\ symtab[i].v = o})
    + Cardinality({n \in Names : isobject(glbsymtab[n]) /\ glbsymtab[n].v = o})
    + (IF isobject(retval) /\ retval.v = o THEN 1 ELSE 0)
    + (IF o = ProgObj THEN 1 ELSE 0)

\* the number of slots of the top frame that hold the value x
HeldInFrame(x) ==
    Cardinality({i \in (sp - Hdr(TheVM).size + 1) .. (sp - 1) : stack[i].val = x})

(* C1: an execution that ends in error (a nonzero return) pops no frame;   *)
(* the frames then stay as they are on every step that is not a            *)
(* spn_vm_callfunc, and the next spn_vm_callfunc pops all of them and      *)
(* clears haserror before it pushes its own frame.                         *)
C1_FramesKeptUntilNextCall ==
    [][fault' = "none" =>
        /\ (status' # 0 /\ Len(cstack') < Len(cstack)) => (sp' = sp /\ live' = live)
        /\ (status # 0 /\ haserror = 1 /\ ncalls' = ncalls) => (sp' = sp /\ live' = live)
        /\ (status # 0 /\ haserror = 1 /\ ncalls' = ncalls + 1) =>
               (Len(live') <= 1 /\ (haserror' = 0 \/ Len(live') = 0))]_vars

(* C2: while haserror is set, no step other than a spn_vm_callfunc changes *)
(* errmsg or clears the flag: the first message survives every later       *)
(* runtime_error and spn_vm_seterrmsg.                                     *)
C2_FirstErrorSticks ==
    [][(haserror = 1 /\ ncalls' = ncalls) => (haserror' = 1 /\ errmsg' = errmsg)]_vars

\* a native callee of a CALL set a custom message and failed; the host sees
\* the custom message, not "error in function"
C2_Witness ==
    /\ cstack = <<>> /\ sp > 1 /\ status = 3
    /\ haserror = 1 /\ errmsg.text = "custom message"

(* C3: the dispatcher returns 0 only from a RET in a frame whose return    *)
(* address is the host sentinel, -1 when an instruction's own check fails, *)
(* and the native callee's nonzero code when that callee fails; a nonzero  *)
(* return (also from spn_vm_callfunc's native branch) leaves haserror set  *)
(* and a message present, which carries the code if it is the first error. *)
C3_ReturnCodes ==
    [][/\ DispatcherReturns =>
            /\ status' = 0 => (IsRet /\ Hdr(TheVM).retaddr = NULLADDR)
            /\ (InDispatch /\ status' # 0) => status' = -1
            /\ InNative => (status' \in NativeCodes \ {0}
                            /\ (haserror = 0 => errmsg'.code = status'))
            /\ status' # 0 => (haserror' = 1 /\ errmsg' # NoMsg)
       /\ (CallfuncNativeReturns /\ status' # 0) =>
            /\ status' \in NativeCodes
            /\ haserror' = 1 /\ errmsg' # NoMsg
            /\ haserror = 0 => errmsg'.code = status']_vars

\* a native callee of a CALL failed with code 3 and the host got that code
C3_Witness ==
    /\ cstack = <<>> /\ sp > 1 /\ status = 3
    /\ haserror = 1 /\ errmsg.text = "error in function" /\ errmsg.code = 3

(* C4: when a spn_vm_callfunc returns 0, the stack depth is the depth at   *)
(* which that call pushed its first frame.                                 *)
C4_DepthRestored ==
    [][(/\ fault' = "none"
        /\ Len(cstack') < Len(cstack)
        /\ status' = 0
        /\ InDispatch \/ (InNative /\ Top.via = "host")) => sp' = Top.base]_vars

(* C5: spn_vm_callfunc with a value that is not a function returns -1,     *)
(* starts no activation and pushes no frame, and sets haserror with the    *)
(* message "attempt to call non-function value" in the native-code form.   *)
C5_NonFunctionCallee ==
    [][(NonFunctionCall /\ fault' = "none") =>
        /\ status' = -1
        /\ cstack' = cstack
        /\ IF haserror = 1 THEN sp' = 0 /\ live' = <<>> ELSE sp' = sp /\ live' = live
        /\ haserror' = 1
        /\ errmsg' = Msg("runtime error in native code", 0,
                         "attempt to call non-function value", 0)]_vars

\* a native callback called spn_vm_callfunc with a non-function
C5_Witness ==
    /\ InNative /\ status = -1 /\ haserror = 1
    /\ errmsg = Msg("runtime error in native code", 0, "attempt to call non-function value", 0)

C7_LdsymIdempotent ==
    [][/\ \A i \in 1 .. Len(symtab) :
            ~is_symstub(symtab[i]) => (Len(symtab') >= i /\ symtab'[i] = symtab[i])
       /\ CanFetch => \A a \in Regs(TheVM) : \A i \in 0 .. (Len(symtab) - 1) :
            (ins_ldsym(a, i) /\ fault' = "none") =>
                IF is_symstub(symtab[i + 1])
                THEN /\ lookedup'
                     /\ Len(cstack') = Len(cstack) =>
                          /\ symtab'[i + 1] = glbsymtab[heap[symtab[i + 1].v].def]
                          /\ ~is_symstub(symtab'[i + 1])
                          /\ stack'[RegIdx(sp, a)].val = symtab'[i + 1]
                ELSE /\ ~lookedup'
                     /\ Len(cstack') = Len(cstack) /\ haserror' = haserror
                     /\ symtab' = symtab
                     /\ stack'[RegIdx(sp, a)].val = symtab[i + 1]]_vars

\* in a later host call, after the global was removed, a fresh frame of the
\* program has loaded the resolved native function
C7_Witness ==
    /\ fault = "none" /\ InDispatch /\ ncalls >= 2 /\ Len(live) = 1
    /\ isnil(glbsymtab["g"])
    /\ Len(symtab) > 0 /\ isfunc(symtab[1]) /\ heap[symtab[1].v].def = "N"
    /\ Reg(TheVM, 0) = symtab[1]

(* C8 as stated: GLBVAL of a name that an earlier GLBVAL or a library      *)
(* installation defined fails with -1 and leaves the global table alone,   *)
(* whatever value the earlier definition stored.                           *)
C8_AnyEarlierDefinition ==
    [][CanFetch => \A a \in Regs(TheVM) : \A name \in Names :
        (ins_glbval(a, name) /\ fault' = "none" /\ name \in registered) =>
            (status' = -1 /\ cstack' = Below /\ glbsymtab' = glbsymtab /\ haserror' = 1)]_vars

(* C8, amended: GLBVAL fails with "re-definition of global" and -1, and    *)
(* leaves the global table alone, exactly when the name is bound to a      *)
(* non-nil value; otherwise it binds the name to the source register.      *)
C8_RedefinitionOfBoundGlobal ==
    [][CanFetch => \A a \in Regs(TheVM) : \A name \in Names :
        (ins_glbval(a, name) /\ fault' = "none") =>
            IF ~isnil(glbsymtab[name])
            THEN /\ status' = -1 /\ cstack' = Below
                 /\ glbsymtab' = glbsymtab
                 /\ haserror' = 1
                 /\ haserror = 0 => errmsg'.text = "re-definition of global"
            ELSE /\ glbsymtab'[name] = Reg(TheVM, a)
                 /\ Len(cstack') = Len(cstack) /\ haserror' = haserror]_vars

\* a GLBVAL failed on a name a library installation or a GLBVAL had bound
C8_Witness ==
    /\ status = -1 /\ haserror = 1 /\ errmsg.text = "re-definition of global"
    /\ "g" \in registered /\ ~isnil(glbsymtab["g"])

C10_RefcountConservation ==
    fault = "none" => \A o \in Objs : heap[o].rc = Owners(o)

-----------------------------------------------------------------------------
(* Properties of single instructions.                                      *)

\* the value in register r of the frame on top of the stack in the next state
RegNext(r) == stack'[RegIdx(sp', r)].val
\* the header of the frame on top of the stack in the next state
HdrNext == stack'[sp'].h
\* x is not an object, or an object that is alive in the next state
AliveNext(x) == isobject(x) => (heap'[x.v].rc > 0 /\ heap'[x.v].kind = x.t)
\* the slot of the new frame that argument i of a call with argc arguments
\* is bound to: register i, or variadic slot i - decl_argc
ArgSlotNext(i) ==
    IF i < HdrNext.decl_argc THEN RegNext(i)
    ELSE RegNext(HdrNext.size - EXTRA_SLOTS - HdrNext.extra_argc + (i - HdrNext.decl_argc))

RECURSIVE FramesInitialized(_)
\* walking down from depth s: a header on top of each frame, an initialized
\* value in each of its other slots, and the frames add up to the base
FramesInitialized(s) ==
    \/ s = 0
    \/ /\ s > 0
       /\ stack[s].k = "h"
       /\ stack[s].h.size >= EXTRA_SLOTS /\ stack[s].h.size <= s
       /\ \A i \in (s - stack[s].h.size + 1) .. (s - 1) : stack[i].k = "v"
       /\ FramesInitialized(s - stack[s].h.size)

(* C12: in every reachable state the stack pointer is at or above the      *)
(* stack base (no frame is popped off the empty stack), the depth is at    *)
(* most stackallsz, and every register and variadic slot of every frame on *)
(* the stack holds an initialized value.                                   *)
C12_StackWellFormed ==
    /\ fault # "underflow"
    /\ fault = "none" =>
          /\ sp >= 0
          /\ sp <= stackallsz
          /\ Len(stack) >= sp
          /\ FramesInitialized(sp)

Bound(m, fnobj, argc, arg) ==
    LET D == FuncDef(heap[fnobj].def).argc
        N == FuncDef(heap[fnobj].def).nregs
        named == IF argc < D THEN argc ELSE D
    IN  /\ m.fault = "none"
        /\ Hdr(m).size = N + (IF argc > D THEN argc - D ELSE 0) + 1
        /\ Hdr(m).real_argc = argc
        /\ \A i \in 0 .. named - 1 : Reg(m, i) = arg[i]
        /\ \A i \in named .. N - 1 : Reg(m, i) = Nil
        /\ \A k \in 0 .. argc - D - 1 : Reg(m, N + k) = arg[D + k]

\* fn is a live script function
IsScriptFn(m, fn) == isfunc(fn) /\ Valid(m, fn) /\ ~FuncDef(m.heap[fn.v].def).native

\* C14: after push_and_copy_args for a callee with D declared parameters and
\* N registers called with argc arguments, from the host's argv or from the
\* caller's registers named by the CALL, the new frame has
\* N + max(0, argc - D) + 1 slots, register i holds argument i for
\* i < min(D, argc), the registers from min(D, argc) to N - 1 are Nil,
\* variadic slot k holds argument D + k, the header records real_argc = argc,
\* and the caller's registers are unchanged.
C14_ArgumentBinding ==
    /\ (fault = "none" /\ InHost) =>
          LET m1 == clean_vm_if_needed(TheVM)
          IN  \A fn \in {MkRef("func", ProgObj), held} : \A argv \in Vectors(ArgsValues, 2) :
                 (m1.fault = "none" /\ IsScriptFn(m1, fn)) =>
                    LET m3 == push_and_copy_args(m1, fn.v, NativeDesc(argv), Len(argv))
                    IN  /\ Bound(m3, fn.v, Len(argv),
                                 [i \in 0 .. Len(argv) - 1 |-> argv[i + 1]])
                        /\ m3.sp = m1.sp + Hdr(m3).size
                        /\ \A i \in 1 .. m1.sp : m3.stack[i] = m1.stack[i]
    /\ (fault = "none" /\ CanFetch) =>
          \A a \in Regs(TheVM) : \A b \in Regs(TheVM) : \A argc \in 0 .. MaxArgc :
             \A argregs \in [1 .. argc -> Regs(TheVM)] :
                IsScriptFn(TheVM, Reg(TheVM, b)) =>
                   LET m2 == push_and_copy_args(TheVM, Reg(TheVM, b).v,
                                ScriptDesc(argregs, Top.ip + 1 + ROUNDUP(argc, SPN_WORD_OCTETS),
                                           sp, RegIdx(sp, a) - 1), argc)
                   IN  /\ Bound(m2, Reg(TheVM, b).v, argc,
                                [i \in 0 .. argc - 1 |-> Reg(TheVM, argregs[i + 1])])
                       /\ m2.sp = sp + Hdr(m2).size
                       /\ \A i \in 1 .. sp : m2.stack[i] = stack[i]

\* a frame that binds one declared parameter and one variadic argument
C14_Witness ==
    /\ fault = "none"
    /\ InDispatch
    /\ sp > 0
    /\ stack[sp].k = "h"
    /\ Hdr(TheVM).decl_argc = 1
    /\ Hdr(TheVM).extra_argc = 1
    /\ Hdr(TheVM).real_argc = 2
    /\ Reg(TheVM, 0) = makeint(1)
    /\ Reg(TheVM, 2) = makebool(TRUE)

\* C15: NTHARG with an index register holding Int k loads the k-th unnamed
\* argument (the content of variadic slot k, which holds call argument
\* decl_argc + k) exactly when 0 <= k < extra_argc; for a negative k, for
\* k >= extra_argc and for an index that is not an Int the dispatcher ends
\* with -1 and a runtime error.  LDARGC loads the number of arguments of the
\* call, also when it is smaller than decl_argc.
C15_NthArgAndArgc ==
    [][(fault = "none" /\ CanFetch) =>
          LET h == Hdr(TheVM)
              N == FuncDef(heap[h.callee].def).nregs
          IN  /\ \A a \in Regs(TheVM) : \A b \in Regs(TheVM) :
                    ins_ntharg(a, b) =>
                       LET k == Reg(TheVM, b)
                       IN  IF isint(k) /\ 0 <= k.v /\ k.v < h.extra_argc
                           THEN /\ fault' = "none"
                                /\ cstack' = SetIp(Top.ip + 1)
                                /\ haserror' = haserror
                                /\ status' = status
                                /\ RegNext(a) = Reg(TheVM, N + k.v)
                                /\ AliveNext(RegNext(a))
                           ELSE /\ status' = -1
                                /\ haserror' = 1
                                /\ cstack' = Below
                                /\ errmsg'.addr = Top.ip
                                /\ errmsg'.text =
                                      (IF ~isint(k) THEN "non-integer argument to `#' operator"
                                       ELSE IF k.v < 0 THEN "negative argument to `#' operator"
                                       ELSE "argument `%d' of `#' operator is out-of bounds")
              /\ \A a \in Regs(TheVM) :
                    ins_ldargc(a) =>
                       /\ fault' = "none"
                       /\ RegNext(a) = makeint(h.real_argc)
                       /\ cstack' = SetIp(Top.ip + 1)]_vars

\* F, called with one declared and one unnamed argument, has loaded the
\* unnamed argument with NTHARG as its first instruction
C15_Witness ==
    /\ fault = "none"
    /\ InDispatch
    /\ sp > 0
    /\ stack[sp].k = "h"
    /\ Hdr(TheVM).decl_argc = 1
    /\ Hdr(TheVM).extra_argc = 1
    /\ Top.ip = CurFn.entry + 1
    /\ Reg(TheVM, 0) = makeint(0)
    /\ Reg(TheVM, 2) = makebool(TRUE)
    /\ Reg(TheVM, 1) = makebool(TRUE)

\* the instruction after a CALL with argc arguments at the current ip: the
\* CALL word and the words that hold its argument register numbers
AfterCall(argc) == Top.ip + 1 + (argc + SPN_WORD_OCTETS - 1) \div SPN_WORD_OCTETS

\* C16: a CALL of a script function records the slot of its A operand and the
\* address after its argument words in the callee's frame.  RET A hands the
\* value of the callee's register A to that slot, or to the host's out-value
\* when the frame was entered from the host, pops exactly the callee's frame
\* and continues at the recorded address; a native callee that succeeds
\* leaves the caller at the same address.
C16_ReturnToCaller ==
    [][/\ (fault = "none" /\ CanFetch) =>
             /\ \A a \in Regs(TheVM) : \A b \in Regs(TheVM) : \A argc \in 0 .. MaxArgc :
                   \A argregs \in [1 .. argc -> Regs(TheVM)] :
                      (/\ Len(cstack') >= Len(cstack)
                       /\ sp' > sp
                       /\ ins_call(a, b, argregs)) =>
                          IF InNative'
                          THEN /\ Top'.retidx + 1 = RegIdx(sp, a)
                               /\ Top'.base = sp
                               /\ Below'[Len(cstack)].ip + Top'.narg = AfterCall(argc)
                          ELSE /\ HdrNext.retidx + 1 = RegIdx(sp, a)
                               /\ HdrNext.retaddr = AfterCall(argc)
                               /\ HdrNext.size = sp' - sp
             /\ \A a \in Regs(TheVM) :
                   ins_ret(a) =>
                      LET callee == Hdr(TheVM)
                      IN  /\ fault' = "none"
                          /\ sp' = sp - callee.size
                          /\ \A i \in 1 .. sp' :
                                i # callee.retidx + 1 => stack'[i] = stack[i]
                          /\ IF callee.retaddr = NULLADDR
                             THEN /\ retval' = Reg(TheVM, a)
                                  /\ status' = 0
                                  /\ cstack' = Below
                             ELSE /\ stack'[callee.retidx + 1].val = Reg(TheVM, a)
                                  /\ cstack' = SetIp(callee.retaddr)
                                  /\ retval' = retval
       /\ (fault = "none" /\ InNative /\ Top.via = "call") =>
             \A out \in OutKinds :
                (/\ out = "new" => HasFree(heap, 1)
                 /\ out = "arg" => Len(Top.argv) > 0
                 /\ fault' = "none"
                 /\ ins_call_native_return(0, out)) =>
                    /\ cstack' = [Below EXCEPT ![Len(Below)].ip = @ + Top.narg]
                    /\ stack'[Top.retidx + 1].val = NativeOut(TheVM, out, Top.argv).val]_vars

\* the program, in the host's first call, continues after the argument word
\* of a CALL; its three words were a LDSYM of F and the CALL of F with F as
\* argument, F defined the global g as its argument and returned it, and the
\* register the CALL named holds it
C16_Witness ==
    /\ fault = "none"
    /\ ncalls = 1
    /\ Len(cstack) = 1
    /\ InDispatch
    /\ sp > 0
    /\ stack[sp].k = "h"
    /\ CurFn.topprg
    /\ Top.ip = CurFn.entry + 3
    /\ isfunc(Reg(TheVM, 0))
    /\ Valid(TheVM, Reg(TheVM, 0))
    /\ heap[Reg(TheVM, 0).v].def = "F"
    /\ Reg(TheVM, 1) = Reg(TheVM, 0)
    /\ glbsymtab["g"] = Reg(TheVM, 0)

\* object o is a closure that is alive
LiveClosure(h, o) == h[o].rc > 0 /\ h[o].kind = "func" /\ h[o].clo

\* C17: CLOSURE captures by copy into a fresh closure.  The closure is a new
\* object with the prototype's code; its upvalue i is the value that the
\* register (Local) or the enclosing function's upvalue (Outer) named by
\* descriptor i held when CLOSURE ran.  No step changes the code or the
\* upvalues of a function object that stays alive, so the prototype and the
\* closures made earlier keep theirs, and LDUPVAL loads the upvalue of the
\* closure that is running.
C17_ClosureCapturesByCopy ==
    [][/\ \A o \in Objs :
             (heap[o].rc > 0 /\ heap[o].kind = "func" /\ heap'[o].rc > 0
              /\ heap'[o].clo = heap[o].clo /\ fault' = "none") =>
                 /\ heap'[o].kind = "func"
                 /\ heap'[o].def = heap[o].def
                 /\ heap'[o].upv = heap[o].upv
       /\ (fault = "none" /\ CanFetch) =>
             /\ \A a \in Regs(TheVM) : \A n \in 0 .. MaxUpvals :
                \A descs \in [1 .. n -> UpvalDescs] :
                   (/\ fault' = "none"
                    /\ Len(cstack') = Len(cstack)
                    /\ Top'.ip = Top.ip + 1 + n
                    /\ \A i \in 1 .. n :
                          IF descs[i].type = "local" THEN descs[i].idx \in Regs(TheVM)
                          ELSE descs[i].idx < MaxUpvals
                    /\ ins_closure(a, descs)) =>
                      LET c  == RegNext(a).v
                          fn == Hdr(TheVM).callee
                      IN  /\ isfunc(RegNext(a))
                          /\ heap[c].kind = "free"
                          /\ LiveClosure(heap', c)
                          /\ heap'[c].def = heap[Reg(TheVM, a).v].def
                          /\ Len(heap'[c].upv) = Len(descs)
                          /\ \A i \in 1 .. Len(descs) :
                                heap'[c].upv[i] =
                                   (IF descs[i].type = "local" THEN Reg(TheVM, descs[i].idx)
                                    ELSE UpvalAt(heap[fn], descs[i].idx))
                          /\ \A o \in Objs \ {c} :
                                (heap[o].kind = "func" /\ heap'[o].rc > 0) =>
                                   /\ heap'[o].clo = heap[o].clo
                                   /\ heap'[o].upv = heap[o].upv
             /\ \A a \in Regs(TheVM) : \A i \in 0 .. MaxUpvals - 1 :
                   (HasUpvalues(TheVM, Hdr(TheVM).callee) /\ ins_ldupval(a, i)) =>
                      /\ fault' = "none"
                      /\ RegNext(a) = UpvalAt(heap[Hdr(TheVM).callee], i)
                      /\ \A o \in Objs : LiveClosure(heap, o) =>
                            (LiveClosure(heap', o) => heap'[o].upv = heap[o].upv)]_vars

\* a closure of F is running and has loaded its upvalue: another closure of
\* F, which captured a different value
C17_Witness ==
    /\ fault = "none"
    /\ InDispatch
    /\ sp > 0
    /\ stack[sp].k = "h"
    /\ Top.ip = CurFn.entry + 1
    /\ LiveClosure(heap, Hdr(TheVM).callee)
    /\ isfunc(Reg(TheVM, 0))
    /\ Reg(TheVM, 0) = UpvalAt(heap[Hdr(TheVM).callee], 0)
    /\ Reg(TheVM, 0).v # Hdr(TheVM).callee
    /\ LiveClosure(heap, Reg(TheVM, 0).v)
    /\ heap[Reg(TheVM, 0).v].def = heap[Hdr(TheVM).callee].def
    /\ heap[Reg(TheVM, 0).v].upv # heap[Hdr(TheVM).callee].upv

\* C18: JZE and JNZ end the dispatcher with -1 and a runtime error at the
\* instruction's address when register A does not hold a Bool.  With a Bool,
\* JZE adds the offset to ip exactly when the value is false and JNZ exactly
\* when it is true, counted from the word after the offset word; a jump that
\* is not taken continues at the word after the offset word.  Nothing else
\* changes.
C18_ConditionalJump ==
    [][(fault = "none" /\ CanFetch) =>
          \A opcode \in JumpOps : \A a \in Regs(TheVM) : \A offset \in -2 .. 1 :
             ins_jze_jnz(opcode, a, offset) =>
                LET reg   == Reg(TheVM, a)
                    after == Top.ip + 2
                IN  IF reg \notin {makebool(TRUE), makebool(FALSE)}
                    THEN /\ status' = -1
                         /\ haserror' = 1
                         /\ cstack' = Below
                         /\ errmsg'.addr = Top.ip
                         /\ errmsg'.text =
                               "register does not contain Boolean value in conditional jump"
                    ELSE /\ fault' = "none"
                         /\ status' = status
                         /\ haserror' = haserror
                         /\ stack' = stack
                         /\ heap' = heap
                         /\ sp' = sp
                         /\ cstack' = SetIp(IF \/ opcode = "JZE" /\ reg = makebool(FALSE)
                                               \/ opcode = "JNZ" /\ reg = makebool(TRUE)
                                            THEN after + offset ELSE after)]_vars

\* the program ended with the error of a conditional jump on a register that
\* holds an Int
C18_Witness ==
    /\ fault = "none"
    /\ InHost
    /\ status = -1
    /\ haserror = 1
    /\ errmsg.text = "register does not contain Boolean value in conditional jump"
    /\ sp > 0
    /\ stack[sp].k = "h"
    /\ \E r \in Regs(TheVM) : isint(Reg(TheVM, r))

\* C19: ADD, SUB, MUL and DIV end the dispatcher with -1 and the error
\* "arithmetic on non-numbers" exactly when a source operand is neither Int
\* nor Float; otherwise the instruction completes and leaves in register A an
\* Int when both operands are Int and a Float when at least one is a Float.
C19_ArithmeticTypes ==
    [][(fault = "none" /\ CanFetch) =>
          \A op \in ArithOps : \A a \in Regs(TheVM) : \A b \in Regs(TheVM) :
             \A c \in Regs(TheVM) :
                ins_arith(op, a, b, c) =>
                   LET bv == Reg(TheVM, b)
                       cv == Reg(TheVM, c)
                   IN  IF bv.t \notin {"int", "float"} \/ cv.t \notin {"int", "float"}
                       THEN /\ status' = -1
                            /\ haserror' = 1
                            /\ cstack' = Below
                            /\ errmsg'.text = "arithmetic on non-numbers"
                       ELSE /\ fault' = "none"
                            /\ status' = status
                            /\ haserror' = haserror
                            /\ cstack' = SetIp(Top.ip + 1)
                            /\ RegNext(a).t = (IF bv.t = "int" /\ cv.t = "int"
                                               THEN "int" ELSE "float")]_vars

\* the entries of storage st (0: the global table) in the next state are what
\* they were (old[k]), except under the names just installed, which are bound
\* as Installed(k, x) says of the new value x
EntriesNext(st, names, old, Installed(_, _)) ==
    \A k \in Keys :
       LET x == IF st = 0 THEN glbsymtab'[k] ELSE heap'[st].tab[k]
       IN  IF k \in names THEN Installed(k, x) ELSE x = old[k]

\* after an installation under libname the entries are in the global table
\* (NULL library name), or in the array bound to libname: the array that was
\* bound before, or a new one if nothing was bound; every other global is
\* as before
InstalledNext(libname, names, Installed(_, _)) ==
    /\ fault' = "none"
    /\ IF libname = NULLNAME
       THEN EntriesNext(0, names, glbsymtab, Installed)
       ELSE LET lib == glbsymtab'[libname]
            IN  /\ lib.t = "arr"
                /\ heap'[lib.v].rc > 0
                /\ heap'[lib.v].kind = "arr"
                /\ \A k \in Keys \ {libname} : glbsymtab'[k] = glbsymtab[k]
                /\ IF isnil(glbsymtab[libname])
                   THEN heap[lib.v].rc = 0 /\ EntriesNext(lib.v, names, NoTab, Installed)
                   ELSE /\ lib = glbsymtab[libname]
                        /\ EntriesNext(lib.v, names, heap[lib.v].tab, Installed)

\* x is a live native function of the next state
NativeNext(k, x) == isfunc(x) /\ heap'[x.v].rc > 0 /\ heap'[x.v].def = "N"

\* C20: spn_vm_addlib_cfuncs and spn_vm_addlib_values with a NULL library
\* name bind each entry in the global table under its own name; with a
\* library name L they bind the entries inside the array stored at
\* globals[L], which is created only if no value is bound to L, so that
\* installations under the same L accumulate and entries installed under
\* other names remain.
C20_LibraryInstallation ==
    [][(fault = "none" /\ InHost) =>
          \A libname \in LibNames :
             /\ \A fns \in FnLists :
                   addlib_cfuncs(libname, fns) =>
                      InstalledNext(libname, {fns[i] : i \in 1 .. Len(fns)}, NativeNext)
             /\ \A vals \in ValLists :
                   addlib_values(libname, vals) =>
                      InstalledNext(libname, {vals[i].name : i \in 1 .. Len(vals)},
                                    LAMBDA k, x :
                                       \E i \in 1 .. Len(vals) :
                                          /\ vals[i].name = k
                                          /\ vals[i].value = x
                                          /\ \A j \in i + 1 .. Len(vals) : vals[j].name # k)]_vars

-----------------------------------------------------------------------------
(* Properties of the symbol tables, of re-entry and of the frame chain *)

\* C21: no register and no variadic slot of a frame on the stack, and no
\* value handed to the host, is a symbol stub; stubs live in the local
\* symbol table only.
C21_NoStubInRegisters ==
    /\ \A i \in 1 .. sp : (i <= Len(stack) /\ stack[i].k = "v") => ~is_symstub(stack[i].val)
    /\ ~is_symstub(retval)
    /\ \A n \in DOMAIN glbsymtab : ~is_symstub(glbsymtab[n])
    /\ \A i \in 1 .. Len(cstack) : \A j \in 1 .. Len(cstack[i].argv) :
          ~is_symstub(cstack[i].argv[j])

\* the program has resolved the stub of g with LDSYM: the entry and a
\* register hold the native function bound to g
C21_Witness ==
    /\ fault = "none"
    /\ InDispatch
    /\ sp > 0
    /\ stack[sp].k = "h"
    /\ Len(symtab) > 0
    /\ ~is_symstub(symtab[1])
    /\ glbsymtab["g"] = symtab[1]
    /\ \E r \in Regs(TheVM) : Reg(TheVM, r) = symtab[1]

\* C22: the local symbol table of the program is parsed at most once.  The
\* flag is never cleared; it is set in every state in which the program is
\* about to execute an instruction, however the program was entered; a host
\* call or a CALL made when the flag is set leaves the table as it is; and
\* no step turns a resolved entry back into a stub.
C22_SymtabReadOnce ==
    [][/\ readsymtab = 1 => readsymtab' = 1
       /\ (CanFetch' /\ CurFn'.topprg) => readsymtab' = 1
       /\ (readsymtab = 1 /\ ncalls' > ncalls) => symtab' = symtab
       /\ (readsymtab = 1 /\ CanFetch /\ sp' > sp) => symtab' = symtab
       /\ \A i \in 1 .. Len(symtab) :
             ~is_symstub(symtab[i]) =>
                (Len(symtab') >= i /\ ~is_symstub(symtab'[i]) /\ symtab'[i] = symtab[i])]_vars

\* the program has been entered a second time, by a CALL from its own first
\* activation or by a later host call, and the entry that LDSYM resolved
\* earlier is still resolved
C22_Witness ==
    /\ fault = "none"
    /\ InDispatch
    /\ sp > 0
    /\ stack[sp].k = "h"
    /\ CurFn.topprg
    /\ Top.ip = CurFn.entry
    /\ readsymtab = 1
    /\ Len(symtab) > 0
    /\ ~is_symstub(symtab[1])

\* C23: a spn_vm_callfunc made from inside a native callback pops and
\* releases no frame of an invocation that is in progress: the slots that
\* were on the stack when the call was made, the callback's pseudo-frame
\* among them, are on the stack unchanged after it, also when haserror was
\* set before the call.
C23_ReentryKeepsFrames ==
    [][(fault = "none" /\ InNative /\ ncalls' > ncalls) =>
          /\ fault' = "none"
          /\ sp' >= sp
          /\ \A i \in 1 .. sp : stack'[i] = stack[i]]_vars


\* C24: whenever a native callee entered by CALL returns 0, haserror is 0, so
\* that the assertion after the call holds, and the frame on top of the stack
\* is the pseudo-frame pushed for that callee, so that pop_frame removes
\* exactly it; this includes the callbacks whose nested spn_vm_callfunc
\* failed.
C24_NativeSuccessInvariant ==
    [][(/\ fault = "none"
        /\ InNative
        /\ Top.via = "call"
        /\ Len(cstack') = Len(cstack) - 1) =>
          /\ haserror = 0
          /\ fault' = "none"
          /\ sp = Top.base + EXTRA_SLOTS
          /\ stack[sp].k = "h"
          /\ stack[sp].h.size = EXTRA_SLOTS
          /\ sp' = Top.base]_vars


\* the frame on top of the stack is the one the running dispatch_loop's
\* spn_vm_callfunc pushed
AtEntryFrame == sp - Hdr(TheVM).size = Top.base

\* C25: a dispatch_loop started by spn_vm_callfunc returns 0 exactly when the
\* frame pushed by that same spn_vm_callfunc executes RET.  A RET of a frame
\* pushed by a CALL stays in the same dispatch_loop.  When the dispatch_loop
\* was started from a native callback, its RET returns to that callback, and
\* the frames of the outer invocation, the callback's pseudo-frame on top of
\* them, are on the stack as they were when the callback made the call.
C25_ReturnEndsOwnInvocation ==
    [][/\ (fault = "none" /\ InDispatch /\ Len(cstack') = Len(cstack) - 1 /\ status' = 0) =>
             /\ IsRet
             /\ AtEntryFrame
             /\ Hdr(TheVM).retaddr = NULLADDR
             /\ sp' = Top.base
       /\ (CanFetch /\ IsRet) =>
             /\ fault' = "none"
             /\ IF AtEntryFrame
                THEN cstack' = Below /\ status' = 0
                ELSE /\ Len(cstack') = Len(cstack)
                     /\ \A i \in 1 .. Len(cstack) - 1 : cstack'[i] = cstack[i]
                     /\ sp' > Top.base
             /\ (AtEntryFrame /\ Len(cstack) > 1) =>
                   /\ InNative'
                   /\ sp' = Top'.base + EXTRA_SLOTS
                   /\ stack'[sp'].k = "h"
                   /\ stack'[sp'].h.size = EXTRA_SLOTS
                   /\ \A i \in 1 .. sp' : stack'[i] = stack[i]]_vars


\* the check of the instruction executed in this step fails: its
\* dispatch_loop returns -1
InstructionFails == InDispatch /\ Len(cstack') = Len(cstack) - 1 /\ status' = -1

\* C26: when the check an instruction makes itself fails, no slot of any
\* frame is modified, no frame is pushed or popped, no object is retained,
\* released or written, and the global and the local symbol table are as
\* they were: the dispatch_loop returns, and of the machine only errmsg and
\* haserror change.
C26_FailedCheckHasNoEffect ==
    [][(fault = "none" /\ InstructionFails) =>
          /\ fault' = "none"
          /\ stack' = stack
          /\ sp' = sp
          /\ stackallsz' = stackallsz
          /\ heap' = heap
          /\ glbsymtab' = glbsymtab
          /\ symtab' = symtab
          /\ readsymtab' = readsymtab
          /\ retval' = retval
          /\ cstack' = Below
          /\ haserror' = 1
          /\ errmsg' # NoMsg]_vars

\* the program's first instruction was a CONCAT of the string in register 0
\* and the Int in register 1: the dispatch_loop has returned -1 to the host,
\* the frame is on the stack and its registers hold what they held
C26_Witness ==
    /\ fault = "none"
    /\ InHost
    /\ status = -1
    /\ haserror = 1
    /\ errmsg = Msg("runtime error at address", SPN_FUNCHDR_LEN,
                    "concatenation of non-string values", 0)
    /\ sp = FuncDef("P").nregs + EXTRA_SLOTS
    /\ stack[sp].k = "h"
    /\ Reg(TheVM, 0) = MkRef("str", StrObj)
    /\ Reg(TheVM, 1) = makeint(-1)
    /\ heap[StrObj].rc = 2


\* the octet of a char
Octet(c) == IF c < 0 THEN c + 256 ELSE c

\* C30: ARRGET A, B, C with a String of length len in register B succeeds
\* exactly when register C holds an Int idx with -len <= idx < len; register
\* A then holds the Int, between 0 and 255, that is the octet at position
\* idx, or at len + idx when idx is negative, and execution continues with
\* the next instruction.  With any other Int the instruction fails with the
\* out-of-bounds error, with an index that is not an Int with the
\* non-integer error, and with a first operand that is neither an Array nor
\* a String with the error about the first operand.
C30_StringIndexing ==
    [][(fault = "none" /\ CanFetch) =>
          \A a \in Regs(TheVM) : \A b \in Regs(TheVM) : \A c \in Regs(TheVM) :
             ins_arrget(a, b, c) =>
                LET vb  == Reg(TheVM, b)
                    vc  == Reg(TheVM, c)
                    len == Len(heap[vb.v].cstr)
                    ok  == isint(vc) /\ -len <= vc.v /\ vc.v < len
                    pos == IF vc.v < 0 THEN len + vc.v ELSE vc.v
                    res == stack'[RegIdx(sp, a)].val
                IN  /\ fault' = "none"
                    /\ (isstring(vb) /\ ok) =>
                          /\ cstack' = SetIp(Top.ip + 1)
                          /\ haserror' = haserror
                          /\ sp' = sp
                          /\ isint(res)
                          /\ res.v \in 0 .. 255
                          /\ res.v = Octet(heap[vb.v].cstr[pos + 1])
                    /\ (isstring(vb) /\ ~ok) =>
                          /\ InstructionFails
                          /\ haserror' = 1
                          /\ haserror = 0 =>
                                errmsg'.text =
                                   IF isint(vc)
                                   THEN "character at normalized index is out of bounds"
                                   ELSE "indexing string with non-integer value"
                    /\ (~isstring(vb) /\ ~isarray(vb)) =>
                          /\ InstructionFails
                          /\ haserror' = 1
                          /\ haserror = 0 =>
                                errmsg'.text =
                                   "first operand of [] operator must be an array or a string"]_vars

\* the first instruction of the program indexed the string "A\310" with -1:
\* register 0 holds 200, the octet of its last character
C30_Witness ==
    /\ fault = "none"
    /\ CanFetch
    /\ Top.ip = CurFn.entry + 1
    /\ heap[StrObj].cstr = <<65, -56>>
    /\ Reg(TheVM, 1) = makeint(-1)
    /\ Reg(TheVM, 0) = makeint(200)


RECURSIVE FrameChain(_, _)
\* walking down from depth s meets the headers of the n frames that were
\* pushed and not popped, innermost first, each of a size that is positive
\* and no more than the depth left, and then stands exactly at the base
FrameChain(s, n) ==
    IF n = 0 THEN s = 0
    ELSE /\ s > 0
         /\ stack[s].k = "h"
         /\ stack[s].h.size >= EXTRA_SLOTS
         /\ stack[s].h.size <= s
         /\ stack[s].h.callee = live[n]
         /\ FrameChain(s - stack[s].h.size, n - 1)

\* C27: the frames form a chain.  In every reachable state the sizes in the
\* headers of the live frames add up to the stack depth, so that the walk
\* down from sp by header sizes ends exactly at the stack base (it is never
\* below it); spn_vm_stacktrace then ends with one entry per live frame and
\* free_frames with the empty stack.
C27_FrameChain ==
    /\ fault # "underflow"
    /\ fault = "none" =>
          /\ sp >= 0
          /\ Len(stack) >= sp
          /\ FrameChain(sp, Len(live))
          /\ stackallsz # 0 => Len(spn_vm_stacktrace(TheVM)) = Len(live)
          /\ free_frames(TheVM).sp = 0


\* the header at depth s: its return address is NULL exactly when its return
\* index is negative; otherwise the index is that of a register slot of the
\* frame immediately below, the caller's
SentinelOk(s) ==
    LET h    == stack[s].h
        base == s - h.size
    IN  /\ h.retaddr = NULLADDR <=> h.retidx < 0
        /\ h.retidx >= 0 =>
              /\ base > 0
              /\ stack[base].k = "h"
              /\ h.retidx + 1 < s - h.size
              /\ \E r \in 0 .. (stack[base].h.size - EXTRA_SLOTS - 1) :
                    h.retidx + 1 = RegIdx(base, r)
              /\ stack[h.retidx + 1].k = "v"

RECURSIVE SentinelsOk(_)
SentinelsOk(s) ==
    \/ s <= 0
    \/ stack[s].k # "h"
    \/ stack[s].h.size < EXTRA_SLOTS
    \/ SentinelOk(s) /\ SentinelsOk(s - stack[s].h.size)

\* C28: the return sentinels are consistent.  In the header of every live
\* frame retaddr is NULL if and only if retidx is negative; a retidx that is
\* not negative is the absolute index of a register slot of the frame
\* immediately below, the caller's, and so lies below the callee's own slots.
C28_ReturnSentinels == fault = "none" => SentinelsOk(sp)

\* the program has executed a CALL of a script function: the callee's frame
\* records a register slot of the program's frame, and the program's own
\* frame, pushed by spn_vm_callfunc, has the two sentinels
C28_Witness ==
    /\ CanFetch
    /\ Hdr(TheVM).retidx >= 0
    /\ Hdr(TheVM).retaddr # NULLADDR
    /\ sp - Hdr(TheVM).size > 0
    /\ stack[sp - Hdr(TheVM).size].k = "h"
    /\ stack[sp - Hdr(TheVM).size].h.retidx < 0
    /\ stack[sp - Hdr(TheVM).size].h.retaddr = NULLADDR


\* C29: LDSYM of an entry that is still a symbol stub, when the global of the
\* stub's name is absent or nil, raises "global ... does not exist or it is
\* nil" at the address of the instruction and makes the dispatch_loop return
\* -1; the destination register and the entry are unchanged, the entry is
\* still the stub.  Whenever the entry is a stub and the global is defined,
\* after an earlier failure as well, LDSYM looks the name up in the global
\* table and succeeds: the register and the entry hold the global's value.
C29_UnresolvedSymbol ==
    [][(fault = "none" /\ CanFetch) =>
          \A a \in Regs(TheVM) : \A symidx \in 0 .. (Len(symtab) - 1) :
             (is_symstub(symtab[symidx + 1]) /\ ins_ldsym(a, symidx)) =>
                LET name == heap[symtab[symidx + 1].v].def
                IN  /\ fault' = "none"
                    /\ lookedup'
                    /\ IF isnil(glbsymtab[name])
                       THEN /\ cstack' = Below
                            /\ status' = -1
                            /\ haserror' = 1
                            /\ haserror = 0 =>
                                  errmsg' = Msg("runtime error at address", Top.ip,
                                                "global does not exist or it is nil", 0)
                            /\ stack' = stack
                            /\ sp' = sp
                            /\ symtab' = symtab
                            /\ heap' = heap
                            /\ glbsymtab' = glbsymtab
                       ELSE /\ cstack' = SetIp(Top.ip + 1)
                            /\ haserror' = haserror
                            /\ stack'[RegIdx(sp, a)].val = glbsymtab[name]
                            /\ symtab'[symidx + 1] = glbsymtab[name]
                            /\ glbsymtab' = glbsymtab]_vars

\* the program's LDSYM of the stub of g failed, g being undefined: the host
\* has -1 and the message, the frame is on the stack with the destination
\* register as it was, and the entry is still the stub
C29_Witness ==
    /\ fault = "none"
    /\ InHost
    /\ status = -1
    /\ haserror = 1
    /\ errmsg.text = "global does not exist or it is nil"
    /\ isnil(glbsymtab["g"])
    /\ Len(symtab) > 0
    /\ is_symstub(symtab[1])
    /\ sp > 0
    /\ stack[sp].k = "h"
    /\ \A r \in Regs(TheVM) : isnil(Reg(TheVM, r))


\* C31: division and remainder of Ints by zero are reported as runtime
\* errors.  DIV with two Int operands, and MOD, with the divisor 0 make the
\* dispatch_loop return -1 with an error message and change no register;
\* with a divisor that is not 0, MOD stores the remainder, which is 0 or has
\* the sign of the dividend and is smaller in magnitude than the divisor.
C31_DivisionByZeroReported ==
    [][(fault = "none" /\ CanFetch) =>
          \A a \in Regs(TheVM) : \A b \in Regs(TheVM) : \A c \in Regs(TheVM) :
             LET bv  == Reg(TheVM, b)
                 cv  == Reg(TheVM, c)
                 res == stack'[RegIdx(sp, a)].val
             IN  (isint(bv) /\ isint(cv)) =>
                   /\ (cv.v = 0 /\ (ins_arith("DIV", a, b, c) \/ ins_mod(a, b, c))) =>
                         /\ fault' = "none"
                         /\ InstructionFails
                         /\ haserror' = 1
                         /\ errmsg' # NoMsg
                         /\ stack' = stack
                   /\ (cv.v # 0 /\ ins_mod(a, b, c)) =>
                         /\ fault' = "none"
                         /\ cstack' = SetIp(Top.ip + 1)
                         /\ isint(res)
                         /\ Abs(res.v) < Abs(cv.v)
                         /\ res.v = 0 \/ (res.v < 0) = (bv.v < 0)
                         /\ \E q \in -MaxNum .. MaxNum : bv.v = q * cv.v + res.v]_vars

C33_ErrorAddress ==
    [][(fault = "none" /\ InstructionFails) =>
          /\ haserror = 0
          /\ haserror' = 1
          /\ errmsg'.pfx = "runtime error at address"
          /\ errmsg'.addr = Top.ip
          /\ \A opcode \in JumpOps : \A a \in Regs(TheVM) : \A offset \in -2 .. 1 :
                ins_jze_jnz(opcode, a, offset) =>
                   errmsg'.text = "register does not contain Boolean value in conditional jump"
          /\ \A a \in Regs(TheVM) : \A name \in Names :
                ins_glbval(a, name) => errmsg'.text = "re-definition of global"]_vars

\* a conditional jump or a GLBVAL that is not the first instruction has failed
C33_Witness ==
    /\ fault = "none"
    /\ InHost
    /\ status = -1
    /\ haserror = 1
    /\ errmsg.addr > FuncDef("P").entry
    /\ errmsg.text \in {"register does not contain Boolean value in conditional jump",
                        "re-definition of global"}

\* the capacities the stack can have: STACK_BASE_SIZE times a power of two
Capacities == {STACK_BASE_SIZE * 2^k : k \in 0 .. 3}

\* C34: the capacity of the stack is 0 until the first frame is pushed and
\* from then on 8 times a power of two.  It changes only in a step that pushes
\* a frame whose top lies above the capacity, and then becomes the smallest
\* of 8, 16, 32, ... (when it was 0) or of its doubles (otherwise) that the
\* frame fits in; it never decreases, and the step that grows the stack
\* leaves the frames below the new one where and as they were.
C34_StackCapacity ==
    [][(fault = "none") =>
          /\ stackallsz = 0 => (sp = 0 /\ live = <<>>)
          /\ stackallsz # 0 => stackallsz \in Capacities
          /\ stackallsz' # 0 => stackallsz' \in Capacities
          /\ stackallsz' >= stackallsz
          /\ sp' > sp => (stackallsz' # 0 /\ sp' <= stackallsz')
          /\ (sp' > sp /\ stackallsz # 0 /\ sp' <= stackallsz) => stackallsz' = stackallsz
          /\ stackallsz' # stackallsz =>
                /\ fault' = "none"
                /\ sp' > sp
                /\ sp' > stackallsz
                /\ stack'[sp'].k = "h"
                /\ stack'[sp'].h.size = sp' - sp
                /\ \A c \in Capacities : (c >= stackallsz /\ c >= sp') => stackallsz' <= c
                /\ \A i \in 1 .. sp : stack'[i] = stack[i]]_vars

\* the stack has grown under a frame that was pushed before
C34_Witness ==
    /\ fault = "none"
    /\ stackallsz = 2 * STACK_BASE_SIZE
    /\ sp > STACK_BASE_SIZE
    /\ Len(live) >= 2
    /\ stack[sp].k = "h"
    /\ stack[sp].h.size < sp

=============================================================================
